---- MODULE Spec2Model ----
(***************************************************************************)
(* Model of the DocTags zone pipeline of doc-analyzer: the DocTags parser  *)
(* (parse_doctags), the coordinate reconciliation done by the backend      *)
(* utilities (normalize_coordinates, auto_adjust_coordinates,              *)
(* calculate_scale_factor) and by their call sites in the backend and      *)
(* legacy visualizer and picture extractor.                                *)
(*                                                                         *)
(* Zone and picture dictionaries are objects on a heap: `heap` is the      *)
(* sequence of records ever allocated and a list of zones is a sequence of *)
(* heap indices, so that dict.copy() (a new object) and an in-place        *)
(* assignment zone['x1'] = ... (the same object) are different things.     *)
(*                                                                         *)
(* Python floats are modelled as exact rationals <<num, den>>, den > 0,    *)
(* in the reconciliation, and digit by digit as IEEE 754 doubles in the    *)
(* resize of a crop; int() of a float is truncation toward zero.           *)
(*                                                                         *)
(* A raster is [width, height, marks]: marks is the sequence of shapes     *)
(* drawn on the rendered page.  The rendering (create_visualization,       *)
(* create_debug_image, process_page) and the picture extraction            *)
(* (extract_and_save_pictures, create_html_index) work on the zone lists   *)
(* the parser and the reconciliation produce.                              *)
(***************************************************************************)
EXTENDS Integers, Sequences, FiniteSets, TLC

VARIABLES
    pc,       \* position of the run: "start", "parsed", "done"
    op,       \* the function or program that produced the current state
    doc,      \* content of the DocTags file, a sequence of tokens
    elems,    \* the elements the file was written from (describes the input)
    layout,   \* how the file wraps them: "wrapped", "bare", "padded"
    adjust,   \* the --adjust flag of the run
    W, H,     \* image.width, image.height of the rendered page
    heap,     \* every zone/picture dict allocated so far
    zones,    \* the list held by the caller (`zones` / `pictures`): heap indices
    input,    \* the records returned by the parser, as they were returned
    scale,    \* <<x_scale, y_scale>> applied by the heuristic branch, or NoScale
    err,      \* "none", or the exception that ended the run
    image,    \* the raster of the rendered page (the `image` argument)
    canvas,   \* the rasters returned by the drawing calls made so far
    font,     \* the font ImageFont found: [cw, h], width of a character, height of a line
    page_num, \* the page number of the run
    ret,      \* what process_page returned, "none" before it returns
    margin,   \* --margin of the picture extractor
    max_width, \* --max-width of the picture extractor
    saved,    \* saved_files: the files extract_and_save_pictures returned
    index,    \* the picture cards of index.html
    fixed,    \* the text fix_scaling returned
    x_factor, y_factor, \* --x-factor, --y-factor of fix_scaling, floats
    x_offset, y_offset, \* --x-offset, --y-offset of fix_scaling
    state,    \* BatchProcessor.state, the dict the batch endpoints report
    pause_event, \* BatchProcessor.pause_event: TRUE when set
    disk,     \* the DocTags files of a batch: results/output.doctags.txt and page_N.doctags.txt
    task,     \* per page, the position of its process_page call in the pool
    runner,   \* the position of BatchProcessor.run
    calls,    \* number of pause(), resume() and cancel() calls made so far
    jobs,     \* the entry of one job in the API's jobs table
    worker    \* the position of the job's process_document thread

rendering == <<image, canvas, font, page_num, ret, margin, max_width, saved, index>>

services == <<state, pause_event, disk, task, runner, calls, jobs, worker>>

tools == <<fixed, x_factor, y_factor, x_offset, y_offset, services>>

vars == <<pc, op, doc, elems, layout, adjust, W, H, heap, zones, input, scale, err,
          image, canvas, font, page_num, ret, margin, max_width, saved, index,
          fixed, x_factor, y_factor, x_offset, y_offset,
          state, pause_event, disk, task, runner, calls, jobs, worker>>

----------------------------------------------------------------------------
(* Bounds of the model. *)

MaxZones == 2

MaxElems == 2

(* Extents <<x1, x2>> a parsed box may carry: degenerate at 0, inverted     *)
(* with x2 = 0, on the 0-500 grid, pixel scale just over the grid, far      *)
(* over the grid; and extents <<y1, y2>>.                                   *)
XExtents == { <<0, 0>>, <<10, 0>>, <<10, 100>>, <<100, 600>>, <<1000, 3000>> }
YExtents == { <<0, 0>>, <<10, 0>>, <<10, 50>>, <<20, 500>>, <<100, 800>> }

(* <<image.width, image.height>> of the rendered page. *)
PageSizes == { <<1, 1>>, <<500, 500>>, <<1000, 1000>>, <<1275, 1650>>, <<4000, 700>> }

----------------------------------------------------------------------------
(* Program constants. *)

DEFAULT_GRID_SIZE == 500

(* The rendering variables of a run that neither draws nor extracts. *)
NoRendering ==
    /\ image = [width |-> W, height |-> H, marks |-> <<>>]
    /\ canvas = <<>>
    /\ font = [cw |-> 0, h |-> 0]
    /\ page_num = 1
    /\ ret = "none"
    /\ margin = 0
    /\ max_width = 0
    /\ saved = <<>>
    /\ index = <<>>

(* No batch and no API job exists in a run of a single program. *)
NoServices ==
    /\ state = <<>>
    /\ pause_event = FALSE
    /\ disk = <<>>
    /\ task = <<>>
    /\ runner = "none"
    /\ calls = 0
    /\ jobs = <<>>
    /\ worker = "none"

(* The variables of the other programs in a run of the page pipeline. *)
NoTools ==
    /\ NoServices
    /\ fixed = <<>>
    /\ x_factor = <<1, 1>>
    /\ y_factor = <<1, 1>>
    /\ x_offset = 0
    /\ y_offset = 0

NoScale == <<>>

----------------------------------------------------------------------------
(* Arithmetic. *)

(* int(n / d) for integers n and d > 0: Python's int() truncates toward 0. *)
TruncDiv(n, d) == IF n >= 0 THEN n \div d ELSE -((-n) \div d)

(* int(x * s) for an integer x and a float s = <<num, den>>. *)
IntMul(x, s) == TruncDiv(x * s[1], s[2])

RLeq(a, b) == a[1] * b[2] <= b[1] * a[2]
RMin(a, b) == IF RLeq(a, b) THEN a ELSE b
RMax(a, b) == IF RLeq(a, b) THEN b ELSE a
REq(a, b)  == a[1] * b[2] = b[1] * a[2]

SetMax(S) == CHOOSE m \in S : \A k \in S : k <= m

Range(s) == { s[i] : i \in DOMAIN s }

(* Python floats are IEEE 754 binary64.  A positive float is [bits, exp]:   *)
(* bits are the 53 binary digits of the significand, most significant       *)
(* first (bits[1] = 1), and the value is the sum of bits[i] * 2^(exp-i+1).  *)
(* Results are rounded to nearest, ties to even.  The digits are computed   *)
(* 13 at a time, so that every intermediate value fits 32 bits.             *)

SignificandBits == 53
LimbBits == 13
Limb == 2^LimbBits

(* The w binary digits of v < 2^w, most significant first. *)
ToBin(v, w) == [k \in 1..w |-> (v \div 2^(w - k)) % 2]

(* The value of at most 31 binary digits. *)
RECURSIVE FromBits(_)
FromBits(bs) ==
    IF bs = <<>> THEN 0 ELSE 2 * FromBits(SubSeq(bs, 1, Len(bs) - 1)) + bs[Len(bs)]

(* The number of binary digits of n >= 1. *)
BitLength(n) == CHOOSE k \in 1..31 : 2^(k - 1) <= n /\ (k = 31 \/ n < 2^k)

(* n further base-2^13 digits of the quotient r / d, for r < d: [bits, r]. *)
RECURSIVE DivBits(_, _, _)
DivBits(r, d, n) ==
    IF n = 0 THEN [bits |-> <<>>, r |-> r]
    ELSE LET rest == DivBits((r * Limb) % d, d, n - 1)
         IN [bits |-> ToBin((r * Limb) \div d, LimbBits) \o rest.bits, r |-> rest.r]

(* bs plus one unit in the last place: [bits, carry]. *)
Incr(bs) ==
    LET zeros == { i \in DOMAIN bs : bs[i] = 0 }
        p == IF zeros = {} THEN 0 ELSE CHOOSE i \in zeros : \A k \in zeros : k <= i
    IN [bits |-> [i \in DOMAIN bs |-> IF i < p THEN bs[i] ELSE IF i = p THEN 1 ELSE 0],
        carry |-> IF p = 0 THEN 1 ELSE 0]

(* The float nearest to the value with digits bs (bs[1] = 1, at least 53   *)
(* of them, weight 2^exp for the first) plus, when sticky, something        *)
(* smaller than the last digit.                                             *)
RoundBits(bs, exp, sticky) ==
    LET kept == SubSeq(bs, 1, SignificandBits)
        guard == IF Len(bs) > SignificandBits THEN bs[SignificandBits + 1] ELSE 0
        rest == sticky \/ \E i \in (SignificandBits + 2)..Len(bs) : bs[i] = 1
        up == guard = 1 /\ (rest \/ kept[SignificandBits] = 1)
        inc == Incr(kept)
    IN IF ~up THEN [bits |-> kept, exp |-> exp]
       ELSE IF inc.carry = 0 THEN [bits |-> inc.bits, exp |-> exp]
       ELSE [bits |-> <<1>> \o SubSeq(inc.bits, 1, SignificandBits - 1), exp |-> exp + 1]

(* a / b for integers 0 < a, b < 2^17. *)
FloatDivide(a, b) ==
    LET up == IF a >= b THEN 0 ELSE CHOOSE s \in 1..17 : a * 2^s >= b /\ a * 2^(s - 1) < b
        down == IF a < b THEN 0 ELSE CHOOSE s \in 0..17 : b * 2^s <= a /\ b * 2^(s + 1) > a
        n == a * 2^up
        d == b * 2^down
        q == DivBits(n - d, d, 4)
        guard == IF 2 * q.r >= d THEN 1 ELSE 0
    IN RoundBits(<<1>> \o q.bits \o <<guard>>, down - up, 2 * q.r - guard * d # 0)

(* The base-2^13 digits of limbs * h + carry, the first one unbounded. *)
RECURSIVE MulLimbs(_, _, _)
MulLimbs(limbs, h, carry) ==
    IF Len(limbs) = 1 THEN << limbs[1] * h + carry >>
    ELSE LET t == limbs[Len(limbs)] * h + carry
         IN Append(MulLimbs(SubSeq(limbs, 1, Len(limbs) - 1), h, t \div Limb), t % Limb)

(* h * f for an integer 1 <= h < 2^17 and a float f. *)
FloatTimes(h, f) ==
    LET limbs == [k \in 1..5 |-> IF k = 1 THEN f.bits[1]
                                 ELSE FromBits(SubSeq(f.bits, 13 * k - 24, 13 * k - 12))]
        m == MulLimbs(limbs, h, 0)
        p == ToBin(m[1], BitLength(m[1])) \o ToBin(m[2], LimbBits) \o ToBin(m[3], LimbBits)
               \o ToBin(m[4], LimbBits) \o ToBin(m[5], LimbBits)
    IN RoundBits(p, f.exp + Len(p) - SignificandBits, FALSE)

(* int(f): the integer part of a float below 2^31. *)
FloatInt(f) == IF f.exp < 0 THEN 0 ELSE FromBits(SubSeq(f.bits, 1, f.exp + 1))

----------------------------------------------------------------------------
(* backend/utils.py *)

(* Variants of normalize_coordinates: round(), and a ceiling, in place of int(). *)
RoundDiv(n, d) == (2 * n + d) \div (2 * d)

CeilDiv(n, d) == (n + d - 1) \div d

normalize_coordinates_round(h, elements, image_width, image_height, grid_size) ==
    LET n == Len(elements)
        new_element(i) ==
            LET element == h[elements[i]]
            IN [element EXCEPT
                  !.x1 = RoundDiv(element.x1 * image_width, grid_size),
                  !.y1 = RoundDiv(element.y1 * image_height, grid_size),
                  !.x2 = RoundDiv(element.x2 * image_width, grid_size),
                  !.y2 = RoundDiv(element.y2 * image_height, grid_size)]
    IN [heap  |-> h \o [i \in 1..n |-> new_element(i)],
        zones |-> [i \in 1..n |-> Len(h) + i],
        scale |-> <<>>,
        err   |-> "none"]

normalize_coordinates_ceil(h, elements, image_width, image_height, grid_size) ==
    LET n == Len(elements)
        new_element(i) ==
            LET element == h[elements[i]]
            IN [element EXCEPT
                  !.x1 = CeilDiv(element.x1 * image_width, grid_size),
                  !.y1 = CeilDiv(element.y1 * image_height, grid_size),
                  !.x2 = CeilDiv(element.x2 * image_width, grid_size),
                  !.y2 = CeilDiv(element.y2 * image_height, grid_size)]
    IN [heap  |-> h \o [i \in 1..n |-> new_element(i)],
        zones |-> [i \in 1..n |-> Len(h) + i],
        scale |-> <<>>,
        err   |-> "none"]

normalize_coordinates(h, elements, image_width, image_height, grid_size) ==
    LET n == Len(elements)
        new_element(i) ==
            LET element == h[elements[i]]
            IN [element EXCEPT
                  !.x1 = TruncDiv(element.x1 * image_width, grid_size),
                  !.y1 = TruncDiv(element.y1 * image_height, grid_size),
                  !.x2 = TruncDiv(element.x2 * image_width, grid_size),
                  !.y2 = TruncDiv(element.y2 * image_height, grid_size)]
    IN [heap  |-> h \o [i \in 1..n |-> new_element(i)],
        zones |-> [i \in 1..n |-> Len(h) + i],
        scale |-> NoScale,
        err   |-> "none"]

(* Variant of calculate_scale_factor with the two conservative bounds swapped. *)
calculate_scale_factor_swapped(max_coord, image_size) ==
    IF max_coord <= 0 THEN <<1, 1>>
    ELSE IF max_coord > image_size * 5 \/ max_coord * 5 < image_size
         THEN <<image_size, max_coord>>
    ELSE IF max_coord > image_size
         THEN RMax(<<image_size, max_coord>>, <<1, 2>>)
         ELSE RMin(<<image_size, max_coord>>, <<1, 1>>)

(* Variant whose lower bound 0.5 applies to every quotient. *)
calculate_scale_factor_bounded(max_coord, image_size) ==
    IF max_coord <= 0 THEN <<1, 1>>
    ELSE RMax(<<image_size, max_coord>>, <<1, 2>>)

calculate_scale_factor(max_coord, image_size) ==
    IF max_coord <= 0 THEN <<1, 1>>
    ELSE IF max_coord > image_size * 5 \/ max_coord * 5 < image_size
         THEN <<image_size, max_coord>>
    ELSE IF max_coord > image_size
         THEN RMin(<<image_size, max_coord>>, <<1, 1>>)
         ELSE RMax(<<image_size, max_coord>>, <<1, 2>>)

(* Variant of auto_adjust_coordinates without the grid test. *)
auto_adjust_coordinates_no_grid(h, elements, image_width, image_height) ==
    IF elements = <<>>
    THEN [heap |-> h, zones |-> elements, scale |-> <<>>, err |-> "none"]
    ELSE
    LET max_x == SetMax({ h[e].x2 : e \in Range(elements) })
        max_y == SetMax({ h[e].y2 : e \in Range(elements) })
        x_scale == calculate_scale_factor(max_x, image_width)
        y_scale == calculate_scale_factor(max_y, image_height)
        n == Len(elements)
        adjusted_el(i) ==
            LET el == h[elements[i]]
            IN [el EXCEPT !.x1 = IntMul(el.x1, x_scale),
                          !.y1 = IntMul(el.y1, y_scale),
                          !.x2 = IntMul(el.x2, x_scale),
                          !.y2 = IntMul(el.y2, y_scale)]
    IN [heap  |-> h \o [i \in 1..n |-> adjusted_el(i)],
        zones |-> [i \in 1..n |-> Len(h) + i],
        scale |-> <<x_scale, y_scale>>,
        err   |-> "none"]

auto_adjust_coordinates(h, elements, image_width, image_height) ==
    IF elements = <<>>
    THEN [heap |-> h, zones |-> elements, scale |-> NoScale, err |-> "none"]
    ELSE
    LET max_x == SetMax({ h[e].x2 : e \in Range(elements) })
        max_y == SetMax({ h[e].y2 : e \in Range(elements) })
    IN  IF max_x <= DEFAULT_GRID_SIZE /\ max_y <= DEFAULT_GRID_SIZE
        THEN normalize_coordinates(h, elements, image_width, image_height,
                                   DEFAULT_GRID_SIZE)
        ELSE
        LET x_scale == calculate_scale_factor(max_x, image_width)
            y_scale == calculate_scale_factor(max_y, image_height)
            n == Len(elements)
            adjusted_el(i) ==
                LET el == h[elements[i]]
                IN [el EXCEPT !.x1 = IntMul(el.x1, x_scale),
                              !.y1 = IntMul(el.y1, y_scale),
                              !.x2 = IntMul(el.x2, x_scale),
                              !.y2 = IntMul(el.y2, y_scale)]
        IN [heap  |-> h \o [i \in 1..n |-> adjusted_el(i)],
            zones |-> [i \in 1..n |-> Len(h) + i],
            scale |-> <<x_scale, y_scale>>,
            err   |-> "none"]

----------------------------------------------------------------------------
(* The outcome of a float division a / b: ZeroDivisionError when b = 0. *)
FloatDiv(a, b) == IF b = 0 THEN [ok |-> FALSE, v |-> <<0, 1>>]
                           ELSE [ok |-> TRUE, v |-> <<a, b>>]

Unchanged(h, zs) == [heap |-> h, zones |-> zs, scale |-> NoScale, err |-> "none"]

Raised(h, zs, e) == [heap |-> h, zones |-> zs, scale |-> NoScale, err |-> e]

(* for el in zs: el['x1'] = int(el['x1'] * x_scale) ... on the objects themselves. *)
ScaleInPlace(h, zs, x_scale, y_scale) ==
    [k \in 1..Len(h) |->
        IF k \in Range(zs)
        THEN [h[k] EXCEPT !.x1 = IntMul(h[k].x1, x_scale),
                          !.y1 = IntMul(h[k].y1, y_scale),
                          !.x2 = IntMul(h[k].x2, x_scale),
                          !.y2 = IntMul(h[k].y2, y_scale)]
        ELSE h[k]]

----------------------------------------------------------------------------
(* picture_extractor.py (legacy) *)

legacy_normalize_coordinates(h, pictures, image_width, image_height, grid_size) ==
    LET n == Len(pictures)
        new_picture(i) ==
            LET picture == h[pictures[i]]
            IN [picture EXCEPT
                  !.x1 = TruncDiv(picture.x1 * image_width, grid_size),
                  !.y1 = TruncDiv(picture.y1 * image_height, grid_size),
                  !.x2 = TruncDiv(picture.x2 * image_width, grid_size),
                  !.y2 = TruncDiv(picture.y2 * image_height, grid_size)]
    IN [heap  |-> h \o [i \in 1..n |-> new_picture(i)],
        zones |-> [i \in 1..n |-> Len(h) + i],
        scale |-> NoScale,
        err   |-> "none"]

(* The scale of one axis: the conservative value, then the override whose  *)
(* division is evaluated whenever its test holds.                          *)
legacy_axis_scale(max_c, image_size) ==
    LET conservative ==
            IF max_c > 0
            THEN IF max_c > image_size
                 THEN RMin(<<image_size, max_c>>, <<1, 1>>)
                 ELSE RMax(<<image_size, max_c>>, <<1, 2>>)
            ELSE <<1, 1>>
    IN  IF max_c > image_size * 5 \/ max_c * 5 < image_size
        THEN FloatDiv(image_size, max_c)
        ELSE [ok |-> TRUE, v |-> conservative]

legacy_auto_adjust_coordinates(h, pictures, image_width, image_height) ==
    IF pictures = <<>> THEN Unchanged(h, pictures)
    ELSE
    LET max_x == SetMax({ h[p].x2 : p \in Range(pictures) })
        max_y == SetMax({ h[p].y2 : p \in Range(pictures) })
    IN  IF max_x <= 500 /\ max_y <= 500
        THEN legacy_normalize_coordinates(h, pictures, image_width, image_height, 500)
        ELSE
        LET xs == legacy_axis_scale(max_x, image_width)
            ys == legacy_axis_scale(max_y, image_height)
            n == Len(pictures)
            adjusted_pic(i) ==
                LET pic == h[pictures[i]]
                IN [pic EXCEPT !.x1 = IntMul(pic.x1, xs.v),
                               !.y1 = IntMul(pic.y1, ys.v),
                               !.x2 = IntMul(pic.x2, xs.v),
                               !.y2 = IntMul(pic.y2, ys.v)]
        IN  IF ~xs.ok \/ ~ys.ok
            THEN Raised(h, pictures, "ZeroDivisionError")
            ELSE [heap  |-> h \o [i \in 1..n |-> adjusted_pic(i)],
                  zones |-> [i \in 1..n |-> Len(h) + i],
                  scale |-> <<xs.v, ys.v>>,
                  err   |-> "none"]

(* The coordinate processing of main(): --adjust, else the manual --scale,  *)
(* --scale-x, --scale-y (NoScale stands for None).                          *)
legacy_main_coordinates(h, pictures, adj, m_scale, m_scale_x, m_scale_y, iw, ih) ==
    IF pictures = <<>> THEN Unchanged(h, pictures)
    ELSE IF adj
    THEN legacy_auto_adjust_coordinates(h, pictures, iw, ih)
    ELSE IF ~REq(m_scale, <<1, 1>>) \/ m_scale_x # NoScale \/ m_scale_y # NoScale
    THEN LET scale_x == IF m_scale_x # NoScale THEN m_scale_x ELSE m_scale
             scale_y == IF m_scale_y # NoScale THEN m_scale_y ELSE m_scale
         IN [heap  |-> ScaleInPlace(h, pictures, scale_x, scale_y),
             zones |-> pictures,
             scale |-> <<scale_x, scale_y>>,
             err   |-> "none"]
    ELSE Unchanged(h, pictures)

----------------------------------------------------------------------------
(* visualizer.py (legacy) *)

legacy_vis_normalize_coordinates(h, zs, image_width, image_height, grid_size) ==
    LET n == Len(zs)
        new_zone(i) ==
            LET zone == h[zs[i]]
            IN [zone EXCEPT
                  !.x1 = TruncDiv(zone.x1 * image_width, grid_size),
                  !.y1 = TruncDiv(zone.y1 * image_height, grid_size),
                  !.x2 = TruncDiv(zone.x2 * image_width, grid_size),
                  !.y2 = TruncDiv(zone.y2 * image_height, grid_size)]
    IN [heap  |-> h \o [i \in 1..n |-> new_zone(i)],
        zones |-> [i \in 1..n |-> Len(h) + i],
        scale |-> NoScale,
        err   |-> "none"]

legacy_vis_axis_scale(max_c, size) ==
    LET conservative ==
            IF max_c > 0
            THEN IF max_c > size
                 THEN RMin(<<size, max_c>>, <<1, 1>>)
                 ELSE RMax(<<size, max_c>>, <<1, 2>>)
            ELSE <<1, 1>>
    IN  IF max_c > size * 5 \/ max_c * 5 < size
        THEN FloatDiv(size, max_c)
        ELSE [ok |-> TRUE, v |-> conservative]

(* The coordinate part of process_page: any exception is caught there and   *)
(* the page is given up (return False).                                     *)
legacy_process_page_coordinates(h, zs, adj, img_width, img_height) ==
    IF zs = <<>> THEN Unchanged(h, zs)
    ELSE
    LET max_x == SetMax({ h[z].x2 : z \in Range(zs) })
        max_y == SetMax({ h[z].y2 : z \in Range(zs) })
    IN  IF max_x <= 500 /\ max_y <= 500
        THEN legacy_vis_normalize_coordinates(h, zs, img_width, img_height, 500)
        ELSE IF adj
        THEN LET xs == legacy_vis_axis_scale(max_x, img_width)
                 ys == legacy_vis_axis_scale(max_y, img_height)
             IN  IF ~xs.ok \/ ~ys.ok
                 THEN Raised(h, zs, "ZeroDivisionError")
                 ELSE IF ~REq(xs.v, <<1, 1>>) \/ ~REq(ys.v, <<1, 1>>)
                 THEN [heap  |-> ScaleInPlace(h, zs, xs.v, ys.v),
                       zones |-> zs,
                       scale |-> <<xs.v, ys.v>>,
                       err   |-> "none"]
                 ELSE [heap |-> h, zones |-> zs, scale |-> <<xs.v, ys.v>>,
                       err |-> "none"]
        ELSE Unchanged(h, zs)

----------------------------------------------------------------------------
(* backend/page_treatment/visualizer.py and picture_extractor.py *)

(* Variant of process_page that adjusts whether or not --adjust was given. *)
process_page_coordinates_always(h, zs, adj, image_width, image_height) ==
    IF zs = <<>> THEN Unchanged(h, zs)
    ELSE auto_adjust_coordinates(h, zs, image_width, image_height)

(* The coordinate part of process_page. *)
process_page_coordinates(h, zs, adj, image_width, image_height) ==
    IF zs = <<>> THEN Unchanged(h, zs)
    ELSE
    LET max_x == SetMax({ h[z].x2 : z \in Range(zs) })
        max_y == SetMax({ h[z].y2 : z \in Range(zs) })
    IN  IF max_x <= DEFAULT_GRID_SIZE /\ max_y <= DEFAULT_GRID_SIZE
        THEN normalize_coordinates(h, zs, image_width, image_height, DEFAULT_GRID_SIZE)
        ELSE IF adj
        THEN auto_adjust_coordinates(h, zs, image_width, image_height)
        ELSE Unchanged(h, zs)

(* The coordinate part of the picture extractor's main(). *)
main_coordinates(h, pictures, adj, image_width, image_height) ==
    IF pictures = <<>> THEN Unchanged(h, pictures)
    ELSE IF adj
    THEN LET max_x == SetMax({ h[p].x2 : p \in Range(pictures) })
             max_y == SetMax({ h[p].y2 : p \in Range(pictures) })
         IN  IF max_x <= DEFAULT_GRID_SIZE /\ max_y <= DEFAULT_GRID_SIZE
             THEN normalize_coordinates(h, pictures, image_width, image_height,
                                        DEFAULT_GRID_SIZE)
             ELSE auto_adjust_coordinates(h, pictures, image_width, image_height)
    ELSE Unchanged(h, pictures)

----------------------------------------------------------------------------
(* DocTags text.  A file is a sequence of tokens: an opening tag <name>, a  *)
(* closing tag </name>, a location marker <loc_N> (an opening tag whose     *)
(* name is loc_N), a closing </loc_N>, a run of text without '<' or '>'     *)
(* and a run of whitespace.  The regular expressions of the parsers match   *)
(* whole tags and skip anything with `.*?`, so they are modelled on tokens. *)

Open(n)     == [k |-> "open",     name |-> n,     v |-> 0]
Close(n)    == [k |-> "close",    name |-> n,     v |-> 0]
Loc(c)      == [k |-> "loc",      name |-> "loc", v |-> c]
CloseLoc(c) == [k |-> "closeloc", name |-> "loc", v |-> c]
Text(t)     == [k |-> "text",     name |-> t,     v |-> 0]
WS          == [k |-> "ws",       name |-> " ",   v |-> 0]

(* The closing tag that matches the opening tag or location marker t. *)
ClosingOf(t) == IF t.k = "loc" THEN CloseLoc(t.v) ELSE Close(t.name)

SetMin(S) == CHOOSE m \in S : \A k \in S : m <= k

(* LOC_PATTERN matches at j: four consecutive location markers. *)
QuadAt(s, j) == j + 3 <= Len(s) /\ \A d \in 0..3 : s[j + d].k = "loc"

(* The first position >= from where LOC_PATTERN matches, or 0. *)
FirstQuad(s, from) ==
    LET P == { j \in from..Len(s) : QuadAt(s, j) }
    IN IF P = {} THEN 0 ELSE SetMin(P)

(* The first position >= from holding the token t, or 0. *)
FirstToken(s, t, from) ==
    LET P == { j \in from..Len(s) : s[j] = t }
    IN IF P = {} THEN 0 ELSE SetMin(P)

(* str.strip() of a token sequence. *)
RECURSIVE Strip(_)
Strip(s) ==
    IF s = <<>> THEN s
    ELSE IF s[1].k = "ws" THEN Strip(Tail(s))
    ELSE IF s[Len(s)].k = "ws" THEN Strip(SubSeq(s, 1, Len(s) - 1))
    ELSE s

(* re.sub(r'<loc_\d+>', '', s) *)
RemoveLocs(s) == SelectSeq(s, LAMBDA t : t.k # "loc")

(* A match of  <tag>.*?LOC.*?</tag>  that starts at position i: the token   *)
(* at i opens the tag, the first quadruple after it is the box, the first   *)
(* closing tag of that name after the quadruple ends the match.             *)
MatchAt(s, i) ==
    LET j == FirstQuad(s, i + 1)
        k == IF j = 0 THEN 0 ELSE FirstToken(s, ClosingOf(s[i]), j + 4)
    IN [ok |-> j # 0 /\ k # 0, i |-> i, j |-> j, k |-> k]

(* The tag pattern of the catch-all scan, <(\w+)>; any other value of tag   *)
(* stands for the literal <tag>.                                            *)
AnyTag == "(\\w+)"

(* Whether the token can start a match of the pattern for tag. *)
Starts(tok, tag) ==
    IF tag = AnyTag THEN tok.k \in {"open", "loc"} ELSE tok = Open(tag)

(* re.finditer: the matches from left to right, each search starting where  *)
(* the previous match ended.                                                *)
RECURSIVE FindIter(_, _, _)
FindIter(s, tag, pos) ==
    IF pos > Len(s) THEN <<>>
    ELSE IF Starts(s[pos], tag) /\ MatchAt(s, pos).ok
         THEN <<MatchAt(s, pos)>> \o FindIter(s, tag, MatchAt(s, pos).k + 1)
         ELSE FindIter(s, tag, pos + 1)

(* The zone a match yields: content is what lies between the first '>' and  *)
(* the last '</' of the match, location markers removed, stripped.          *)
ZoneOf(s, m, tag) ==
    [type |-> tag,
     x1 |-> s[m.j].v, y1 |-> s[m.j + 1].v, x2 |-> s[m.j + 2].v, y2 |-> s[m.j + 3].v,
     content |-> Strip(RemoveLocs(SubSeq(s, m.i + 1, m.k - 1)))]

(* zones.sort(key=lambda z: (z['y1'], z['x1'])): a stable sort. *)
KeyLeq(a, b) == a.y1 < b.y1 \/ (a.y1 = b.y1 /\ a.x1 <= b.x1)

RECURSIVE SortZones(_)
SortZones(s) ==
    IF s = <<>> THEN s
    ELSE LET last == s[Len(s)]
             t == SortZones(SubSeq(s, 1, Len(s) - 1))
             p == Cardinality({ i \in DOMAIN t : KeyLeq(t[i], last) })
         IN SubSeq(t, 1, p) \o <<last>> \o SubSeq(t, p + 1, Len(t))

(* if not doctags_content.strip() *)
IsBlank(s) == \A i \in DOMAIN s : s[i].k = "ws"

(* re.search(r'<doctag>(.*?)</doctag>', ...): [ok, content]. *)
DoctagMatch(s) ==
    LET i == FirstToken(s, Open("doctag"), 1)
        j == IF i = 0 THEN 0 ELSE FirstToken(s, Close("doctag"), i + 1)
    IN [ok |-> i # 0 /\ j # 0,
        content |-> IF i # 0 /\ j # 0 THEN SubSeq(s, i + 1, j - 1) ELSE <<>>]

(* backend/page_treatment/visualizer.py: parse_doctags *)

tag_types == << "section_header_level_1", "section_header_level_2",
                "section_header_level_3", "text", "picture", "table",
                "page_header", "page_footer", "title", "author", "abstract",
                "keywords", "paragraph", "list_item", "code_block", "footnote",
                "caption" >>

(* The zones of the loop over tag_types, from the t-th type on. *)
RECURSIVE TypedZones(_, _)
TypedZones(c, t) ==
    IF t > Len(tag_types) THEN <<>>
    ELSE LET ms == FindIter(c, tag_types[t], 1)
         IN [n \in 1..Len(ms) |-> ZoneOf(c, ms[n], tag_types[t])] \o TypedZones(c, t + 1)

TagKey(name, x1, y1) == <<name, x1, y1>>

(* The same loop without the test `tag_key not in found_tags`. *)
RECURSIVE GeneralZones_no_dedupe(_, _, _, _, _)
GeneralZones_no_dedupe(c, ms, n, zs, found) ==
    IF n > Len(ms) THEN zs
    ELSE IF c[ms[n].i].k = "loc"
         THEN GeneralZones_no_dedupe(c, ms, n + 1, zs, found)
         ELSE GeneralZones_no_dedupe(c, ms, n + 1,
                                     Append(zs, ZoneOf(c, ms[n], c[ms[n].i].name)), found)

(* The loop over general_matches from the n-th match on: zs are the zones   *)
(* collected so far and found the keys seen so far.                         *)
RECURSIVE GeneralZones(_, _, _, _, _)
GeneralZones(c, ms, n, zs, found) ==
    IF n > Len(ms) THEN zs
    ELSE LET m == ms[n]
             tok == c[m.i]
             key == TagKey(tok.name, c[m.j].v, c[m.j + 1].v)
         IN IF tok.k = "loc" THEN GeneralZones(c, ms, n + 1, zs, found)
            ELSE IF key \notin found
            THEN GeneralZones(c, ms, n + 1, Append(zs, ZoneOf(c, m, tok.name)),
                              found \cup {key})
            ELSE GeneralZones(c, ms, n + 1, zs, found)

EmptyError == "ValueError: DocTags file is empty"
NoDoctagError == "ValueError: No <doctag> tags found in the file"

(* The list `zones` as it stands before the sort: the zones of the loop    *)
(* over tag_types, then those the general pattern adds.                     *)
CollectedZones(c) ==
    LET typed == TypedZones(c, 1)
        general_matches == FindIter(c, AnyTag, 1)
        found_tags == { TagKey(typed[n].type, typed[n].x1, typed[n].y1)
                          : n \in DOMAIN typed }
    IN GeneralZones(c, general_matches, 1, typed, found_tags)

(* [err, zones]: the exception raised, or the list returned. *)
parse_doctags(s) ==
    IF IsBlank(s) THEN [err |-> EmptyError, zones |-> <<>>]
    ELSE IF ~DoctagMatch(s).ok THEN [err |-> NoDoctagError, zones |-> <<>>]
    ELSE [err |-> "none", zones |-> SortZones(CollectedZones(DoctagMatch(s).content))]

(* visualizer.py (legacy): parse_doctags *)

(* The zones of the loop over tag_starts, from position pos on. *)
RECURSIVE LegacyZones(_, _)
LegacyZones(c, pos) ==
    IF pos > Len(c) THEN <<>>
    ELSE LET tok == c[pos]
             e == IF tok.k = "open" THEN FirstToken(c, Close(tok.name), pos) ELSE 0
             tag_content == IF e = 0 THEN <<>> ELSE SubSeq(c, pos, e)
             j == FirstQuad(tag_content, 1)
         IN IF tok.k # "open" \/ e = 0 \/ j = 0
            THEN LegacyZones(c, pos + 1)
            ELSE << [type |-> tok.name,
                     x1 |-> tag_content[j].v, y1 |-> tag_content[j + 1].v,
                     x2 |-> tag_content[j + 2].v, y2 |-> tag_content[j + 3].v,
                     content |-> Strip(SubSeq(tag_content, j + 4, Len(tag_content) - 1))] >>
                 \o LegacyZones(c, pos + 1)

legacy_parse_doctags(s) ==
    IF ~DoctagMatch(s).ok THEN [err |-> NoDoctagError, zones |-> <<>>]
    ELSE [err |-> "none", zones |-> LegacyZones(DoctagMatch(s).content, 1)]

(* backend/page_treatment/picture_extractor.py: extract_pictures_from_doctags *)

(* The pictures of the matches of PICTURE_PATTERN from the n-th on; the     *)
(* caption is group 5, what lies between the quadruple and </picture>.      *)
RECURSIVE PicturesOf(_, _, _)
PicturesOf(s, ms, n) ==
    IF n > Len(ms) THEN <<>>
    ELSE << [id |-> n,
             x1 |-> s[ms[n].j].v, y1 |-> s[ms[n].j + 1].v,
             x2 |-> s[ms[n].j + 2].v, y2 |-> s[ms[n].j + 3].v,
             caption |-> Strip(RemoveLocs(SubSeq(s, ms[n].j + 4, ms[n].k - 1)))] >>
         \o PicturesOf(s, ms, n + 1)

(* [err, zones]: the whole file is scanned, with or without a wrapper. *)
extract_pictures_from_doctags(s) ==
    [err |-> "none", zones |-> PicturesOf(s, FindIter(s, "picture", 1), 1)]

----------------------------------------------------------------------------
(* The state after parsing: a list of freshly created records. *)

Boxes == { [type |-> "picture", x1 |-> ex[1], y1 |-> ey[1], x2 |-> ex[2], y2 |-> ey[2],
             content |-> <<>>] : ex \in XExtents, ey \in YExtents }

ZoneLists == UNION { [1..n -> Boxes] : n \in 0..MaxZones }

InitReconcile ==
    /\ pc = "parsed"
    /\ op = "parse"
    /\ doc = <<>>
    /\ elems = <<>>
    /\ layout = "none"
    /\ adjust = FALSE
    /\ \E sz \in PageSizes : W = sz[1] /\ H = sz[2]
    /\ input \in ZoneLists
    /\ heap = input
    /\ zones = [i \in 1..Len(input) |-> i]
    /\ scale = NoScale
    /\ err = "none"
    /\ NoRendering
    /\ NoTools

Finish(name, flag, r) ==
    /\ pc' = "done"
    /\ op' = name
    /\ adjust' = flag
    /\ heap' = r.heap
    /\ zones' = r.zones
    /\ scale' = r.scale
    /\ err' = r.err
    /\ UNCHANGED <<doc, elems, layout, W, H, input>>
    /\ UNCHANGED rendering
    /\ UNCHANGED tools

(* parse_doctags sorts its result by (y1, x1). *)
SortedByPosition(s) ==
    \A i \in 1..(Len(s) - 1) :
        \/ s[i].y1 < s[i + 1].y1
        \/ s[i].y1 = s[i + 1].y1 /\ s[i].x1 <= s[i + 1].x1

(* --scale, --scale-x, --scale-y of the legacy picture extractor. *)
ManualScales == { <<1, 1>>, <<1, 2>> }
ManualAxisScales == { NoScale, <<2, 1>> }

(* A direct call auto_adjust_coordinates(zones, image.width, image.height). *)
UtilsAutoAdjust ==
    /\ pc = "parsed"
    /\ Finish("utils.auto_adjust_coordinates", TRUE,
              auto_adjust_coordinates(heap, zones, W, H))

(* A direct call of the legacy picture_extractor.auto_adjust_coordinates. *)
LegacyAutoAdjust ==
    /\ pc = "parsed"
    /\ Finish("legacy.auto_adjust_coordinates", TRUE,
              legacy_auto_adjust_coordinates(heap, zones, W, H))

(* backend visualizer: process_page on the zones parse_doctags returned. *)
VisProcessPage ==
    /\ pc = "parsed"
    /\ SortedByPosition(input)
    /\ \E adj \in BOOLEAN :
          Finish("visualizer.process_page", adj,
                 process_page_coordinates(heap, zones, adj, W, H))

(* backend picture extractor: main on the pictures found. *)
PicMain ==
    /\ pc = "parsed"
    /\ \E adj \in BOOLEAN :
          Finish("picture_extractor.main", adj,
                 main_coordinates(heap, zones, adj, W, H))

(* legacy visualizer: process_page. *)
LegacyVisProcessPage ==
    /\ pc = "parsed"
    /\ \E adj \in BOOLEAN :
          Finish("legacy.visualizer.process_page", adj,
                 legacy_process_page_coordinates(heap, zones, adj, W, H))

(* legacy picture extractor: main with --adjust. *)
LegacyPicMainAdjust ==
    /\ pc = "parsed"
    /\ Finish("legacy.picture_extractor.main", TRUE,
              legacy_main_coordinates(heap, zones, TRUE, <<1, 1>>, NoScale, NoScale, W, H))

(* legacy picture extractor: main without --adjust, with any manual scale. *)
LegacyPicMainManual ==
    /\ pc = "parsed"
    /\ \E s \in ManualScales, sx, sy \in ManualAxisScales :
          Finish("legacy.picture_extractor.main", FALSE,
                 legacy_main_coordinates(heap, zones, FALSE, s, sx, sy, W, H))

NextReconcile ==
    \/ UtilsAutoAdjust
    \/ LegacyAutoAdjust
    \/ VisProcessPage
    \/ PicMain
    \/ LegacyVisProcessPage
    \/ LegacyPicMainAdjust
    \/ LegacyPicMainManual

SpecReconcile == InitReconcile /\ [][NextReconcile]_vars

----------------------------------------------------------------------------
(* DocTags files.  A file is written from at most MaxElems elements:        *)
(*   zone      <kind><loc*4>content</kind>                                  *)
(*   dangling  <kind><loc*4>content            (no closing tag)             *)
(*   nolocs    <kind>content</kind>            (no location markers)        *)
(*   nested    <kind><loc*4><text><loc*4>in</text></kind>                   *)
(*   locclose  <loc_1><loc*4></loc_1>                                       *)
(* "text" and "picture" are in tag_types, "formula" is not.                 *)

Kinds == { "text", "picture", "formula" }

ElemBoxes == { <<10, 10, 100, 50>>, <<10, 10, 200, 80>>, <<30, 5, 90, 40>> }

Contents == { <<>>, <<Text("Hello")>>, <<WS, Text("a"), Loc(7), Text("b"), WS>> }

Elem(sh, kd, bx, ct) == [shape |-> sh, kind |-> kd, box |-> bx, content |-> ct]

ZoneElems == { Elem("zone", kd, bx, ct) : kd \in Kinds, bx \in ElemBoxes, ct \in Contents }

OtherElems ==
    { Elem("dangling", kd, <<10, 10, 100, 50>>, <<Text("Hello")>>) : kd \in {"text", "formula"} }
    \cup { Elem("nolocs", kd, <<0, 0, 0, 0>>, <<Text("Hello")>>) : kd \in {"text", "formula"} }
    \cup { Elem("nested", kd, <<10, 10, 200, 80>>, <<>>) : kd \in {"picture", "formula"} }
    \cup { Elem("locclose", "loc", <<10, 10, 100, 50>>, <<>>) }

Quad(bx) == <<Loc(bx[1]), Loc(bx[2]), Loc(bx[3]), Loc(bx[4])>>

InnerBox == <<30, 5, 90, 40>>

ElemTokens(e) ==
    CASE e.shape = "zone" ->
           <<Open(e.kind)>> \o Quad(e.box) \o e.content \o <<Close(e.kind)>>
      [] e.shape = "dangling" ->
           <<Open(e.kind)>> \o Quad(e.box) \o e.content
      [] e.shape = "nolocs" ->
           <<Open(e.kind)>> \o e.content \o <<Close(e.kind)>>
      [] e.shape = "nested" ->
           <<Open(e.kind)>> \o Quad(e.box)
              \o <<Open("text")>> \o Quad(InnerBox) \o <<Text("in"), Close("text")>>
              \o <<Close(e.kind)>>
      [] e.shape = "locclose" ->
           <<Loc(1)>> \o Quad(e.box) \o <<CloseLoc(1)>>

RECURSIVE Body(_)
Body(es) == IF es = <<>> THEN <<>> ELSE ElemTokens(Head(es)) \o Body(Tail(es))

Layouts == { "wrapped", "bare", "padded" }

FileOf(es, lay) ==
    CASE lay = "wrapped" -> <<Open("doctag")>> \o Body(es) \o <<Close("doctag")>>
      [] lay = "bare"    -> Body(es)
      [] lay = "padded"  -> <<WS>> \o Body(es) \o <<WS>>

ElemLists == UNION { [1..n -> ZoneElems \cup OtherElems] : n \in 0..MaxElems }

InitParse ==
    /\ pc = "start"
    /\ op = "none"
    /\ elems \in ElemLists
    /\ layout \in Layouts
    /\ doc = FileOf(elems, layout)
    /\ adjust = FALSE
    /\ W = 1 /\ H = 1
    /\ heap = <<>>
    /\ zones = <<>>
    /\ input = <<>>
    /\ scale = NoScale
    /\ err = "none"
    /\ NoRendering
    /\ NoTools

Parsed(name, r) ==
    /\ pc' = IF r.err = "none" THEN "parsed" ELSE "raised"
    /\ op' = name
    /\ heap' = r.zones
    /\ zones' = [i \in 1..Len(r.zones) |-> i]
    /\ input' = r.zones
    /\ err' = r.err
    /\ UNCHANGED <<doc, elems, layout, adjust, W, H, scale>>
    /\ UNCHANGED rendering
    /\ UNCHANGED tools

(* backend visualizer: parse_doctags on the file. *)
ParseDoctags ==
    /\ pc = "start"
    /\ Parsed("parse_doctags", parse_doctags(doc))

(* legacy visualizer: parse_doctags on the file. *)
LegacyParseDoctags ==
    /\ pc = "start"
    /\ Parsed("legacy.parse_doctags", legacy_parse_doctags(doc))

(* backend picture extractor: extract_pictures_from_doctags on the file. *)
ExtractPictures ==
    /\ pc = "start"
    /\ Parsed("extract_pictures_from_doctags", extract_pictures_from_doctags(doc))

NextParse ==
    \/ ParseDoctags
    \/ LegacyParseDoctags
    \/ ExtractPictures

SpecParse == InitParse /\ [][NextParse]_vars

----------------------------------------------------------------------------
(* Drawing.  A mark is a shape drawn on a raster: [shape, box, color, text, *)
(* of].  box is <<x1, y1, x2, y2>> (for a text, the point it is drawn at,   *)
(* twice), color is the key of the palette entry used, and `of` is the      *)
(* position in the zone list of the zone the mark was drawn for (0 for the  *)
(* page badge); `of` describes the drawing, the program does not store it.  *)

Mark(sh, bx, cl, tx, n) == [shape |-> sh, box |-> bx, color |-> cl, text |-> tx, of |-> n]

Min2(a, b) == IF a <= b THEN a ELSE b
Max2(a, b) == IF a >= b THEN a ELSE b

(* The keys of ZONE_COLORS other than 'default'. *)
ZONE_COLORS ==
    { "section_header_level_1", "text", "picture", "table", "page_header", "page_footer" }

(* ZONE_COLORS.get(zone_type, ZONE_COLORS['default']) *)
ZoneColor(zone_type) == IF zone_type \in ZONE_COLORS THEN zone_type ELSE "default"

(* zone_type.replace('_', ' ').title(), for the kinds of the model. *)
LabelText(zone_type) ==
    CASE zone_type = "text" -> "Text"
      [] zone_type = "picture" -> "Picture"
      [] zone_type = "formula" -> "Formula"
      [] zone_type = "section_header_level_1" -> "Section Header Level 1"
      [] OTHER -> zone_type

(* f"Page {page_num}" *)
PageText(pn) == IF pn = 1 THEN "Page 1" ELSE "Page 12"

(* len(s), for the strings of the model. *)
StrLen(s) ==
    CASE s \in {"text", "Text"} -> 4
      [] s \in {"picture", "Picture", "formula", "Formula"} -> 7
      [] s \in {"section_header_level_1", "Section Header Level 1"} -> 22
      [] s = "Page 1" -> 6
      [] s = "Page 12" -> 7
      [] OTHER -> 0

(* draw.textbbox((0, 0), text, font=font): <<width, height>> of the text. *)
TextSize(text, fnt) == <<fnt.cw * StrLen(text), fnt.h>>

(* backend/page_treatment/visualizer.py: create_visualization *)

(* The body of the loop without the test that skips invalid zones. *)
ZoneMarks_no_skip(z, n, iw, ih, fnt) ==
    LET color == ZoneColor(z.type)
        x1 == Max2(0, Min2(z.x1, iw - 1))
        y1 == Max2(0, Min2(z.y1, ih - 1))
        x2 == Max2(0, Min2(z.x2, iw))
        y2 == Max2(0, Min2(z.y2, ih))
    IN << Mark("rectangle", <<x1, y1, x2, y2>>, color, "", n) >>

(* The body of the loop `for zone in zones` for the n-th zone z: the marks  *)
(* it draws.                                                                *)
ZoneMarks(z, n, iw, ih, fnt) ==
    IF z.x1 >= z.x2 \/ z.y1 >= z.y2 THEN <<>>
    ELSE LET color == ZoneColor(z.type)
             x1 == Max2(0, Min2(z.x1, iw - 1))
             y1 == Max2(0, Min2(z.y1, ih - 1))
             x2 == Max2(0, Min2(z.x2, iw))
             y2 == Max2(0, Min2(z.y2, ih))
             corner_length == 10
             label_text == LabelText(z.type)
             text_width == TextSize(label_text, fnt)[1]
             text_height == TextSize(label_text, fnt)[2]
             label_x == Min2(x1 + 2, iw - text_width - 4)
             label_y == Max2(y1 - text_height - 4, 2)
         IN << Mark("rectangle", <<x1, y1, x2, y2>>, color, "", n),
               Mark("line", <<x1, y1, x1 + corner_length, y1>>, color, "", n),
               Mark("line", <<x1, y1, x1, y1 + corner_length>>, color, "", n),
               Mark("line", <<x2 - corner_length, y1, x2, y1>>, color, "", n),
               Mark("line", <<x2, y1, x2, y1 + corner_length>>, color, "", n),
               Mark("line", <<x1, y2 - corner_length, x1, y2>>, color, "", n),
               Mark("line", <<x1, y2, x1 + corner_length, y2>>, color, "", n),
               Mark("line", <<x2 - corner_length, y2, x2, y2>>, color, "", n),
               Mark("line", <<x2, y2 - corner_length, x2, y2>>, color, "", n),
               Mark("label", <<label_x - 2, label_y - 2,
                               label_x + text_width + 2, label_y + text_height + 2>>,
                    color, "", n),
               Mark("text", <<label_x, label_y, label_x, label_y>>, color, label_text, n) >>

(* The marks of the zones from the n-th on. *)
RECURSIVE DrawZones(_, _, _, _, _, _)
DrawZones(h, zs, n, iw, ih, fnt) ==
    IF n > Len(zs) THEN <<>>
    ELSE ZoneMarks(h[zs[n]], n, iw, ih, fnt) \o DrawZones(h, zs, n + 1, iw, ih, fnt)

(* The page number badge. *)
PageBadge(pn, fnt) ==
    LET page_text == PageText(pn)
        page_width == TextSize(page_text, fnt)[1]
        page_height == TextSize(page_text, fnt)[2]
    IN << Mark("badge", <<10, 10, 20 + page_width, 20 + page_height>>, "white", "", 0),
          Mark("text", <<15, 15, 15, 15>>, "white", page_text, 0) >>

(* The same function drawing on `image` itself instead of a copy. *)
create_visualization_in_place(im, h, zs, pn, fnt) ==
    LET drawn == [im EXCEPT !.marks = im.marks \o DrawZones(h, zs, 1, im.width, im.height, fnt)
                                             \o PageBadge(pn, fnt)]
    IN [image |-> drawn, heap |-> h, out |-> drawn]

(* [image, heap, out]: the `image` argument and the heap after the call,    *)
(* and debug_img, the raster returned (and saved).                          *)
create_visualization(im, h, zs, pn, fnt) ==
    LET debug_img == im
    IN [image |-> im, heap |-> h,
        out |-> [debug_img EXCEPT !.marks = debug_img.marks
                                            \o DrawZones(h, zs, 1, im.width, im.height, fnt)
                                            \o PageBadge(pn, fnt)]]

(* visualizer.py (legacy): create_debug_image *)

RECURSIVE LegacyDrawZones(_, _, _, _)
LegacyDrawZones(h, zs, n, iw) ==
    IF n > Len(zs) THEN <<>>
    ELSE LET zone == h[zs[n]]
             color == ZoneColor(zone.type)
             label_width == StrLen(zone.type) * 7 + 6
             label_x == Min2(zone.x1, iw - label_width)
         IN << Mark("rectangle", <<zone.x1, zone.y1, zone.x2, zone.y2>>, color, "", n),
               Mark("label", <<label_x, zone.y1, label_x + label_width, zone.y1 + 20>>,
                    color, "", n),
               Mark("text", <<label_x + 3, zone.y1 + 3, label_x + 3, zone.y1 + 3>>,
                    color, zone.type, n) >>
            \o LegacyDrawZones(h, zs, n + 1, iw)

create_debug_image(im, h, zs, pn) ==
    LET debug_img == im
    IN [image |-> im, heap |-> h,
        out |-> [debug_img EXCEPT !.marks = debug_img.marks
                    \o LegacyDrawZones(h, zs, 1, im.width)
                    \o << Mark("badge", <<10, 10, 100, 40>>, "white", "", 0),
                          Mark("text", <<15, 15, 15, 15>>, "white", PageText(pn), 0) >>]]

(* The drawing calls.  A run starts from a zone list as the parser and the  *)
(* reconciliation leave it, a rendered page and the font found; the same    *)
(* drawing function may then be called a second time on the same arguments. *)

RenderTypes == { "text", "formula" }
RenderX == { <<10, 0>>, <<10, 100>>, <<600, 700>> }
RenderY == { <<10, 10>>, <<490, 500>> }
RenderPages == { <<1, 1>>, <<60, 30>>, <<500, 500>> }
Fonts == { [cw |-> 7, h |-> 11], [cw |-> 12, h |-> 20] }
PageNums == { 1, 12 }

RenderBoxes ==
    { [type |-> t, x1 |-> ex[1], y1 |-> ey[1], x2 |-> ex[2], y2 |-> ey[2], content |-> <<>>]
        : t \in RenderTypes, ex \in RenderX, ey \in RenderY }

RenderLists == UNION { [1..n -> RenderBoxes] : n \in 0..MaxZones }

InitRender ==
    /\ pc = "ready"
    /\ op = "none"
    /\ doc = <<>>
    /\ elems = <<>>
    /\ layout = "none"
    /\ adjust = FALSE
    /\ \E sz \in RenderPages : W = sz[1] /\ H = sz[2]
    /\ input \in RenderLists
    /\ heap = input
    /\ zones = [i \in 1..Len(input) |-> i]
    /\ scale = NoScale
    /\ err = "none"
    /\ image = [width |-> W, height |-> H, marks |-> <<>>]
    /\ canvas = <<>>
    /\ font \in Fonts
    /\ page_num \in PageNums
    /\ ret = "none"
    /\ margin = 0
    /\ max_width = 0
    /\ saved = <<>>
    /\ index = <<>>
    /\ NoTools

Drawn(name, r) ==
    /\ pc' = "drawn"
    /\ op' = name
    /\ image' = r.image
    /\ heap' = r.heap
    /\ canvas' = Append(canvas, r.out)
    /\ UNCHANGED <<doc, elems, layout, adjust, W, H, zones, input, scale, err>>
    /\ UNCHANGED <<font, page_num, ret, margin, max_width, saved, index>>
    /\ UNCHANGED tools

(* backend visualizer: create_visualization(image, zones, page_num, ...). *)
CreateVisualization ==
    /\ pc = "ready" \/ (pc = "drawn" /\ op = "create_visualization" /\ Len(canvas) < 2)
    /\ Drawn("create_visualization", create_visualization(image, heap, zones, page_num, font))

(* legacy visualizer: create_debug_image(image, zones, page_num, ...). *)
CreateDebugImage ==
    /\ pc = "ready" \/ (pc = "drawn" /\ op = "legacy.create_debug_image" /\ Len(canvas) < 2)
    /\ Drawn("legacy.create_debug_image", create_debug_image(image, heap, zones, page_num))

NextRender ==
    \/ CreateVisualization
    \/ CreateDebugImage

SpecRender == InitRender /\ [][NextRender]_vars

(* backend/page_treatment/visualizer.py: process_page *)

(* The exceptions `except ValueError` catches. *)
ValueErrors == { EmptyError, NoDoctagError }

(* [image, heap, zones, input, scale, out, ret, err]: the page raster and   *)
(* the heap after the call, the list `zones` at the end, the list the       *)
(* parser returned, the scale applied, the rasters drawn, the value         *)
(* returned and the exception that left the function.                       *)
PageResult(v, r, parsed, drawn, value, e) ==
    [image |-> v.image, heap |-> v.heap, zones |-> r.zones, input |-> parsed,
     scale |-> r.scale, out |-> drawn, ret |-> value, err |-> e]

(* The end of process_page: the visualisation v is saved and True returned. *)
PageDrawn(p, r, v) == PageResult(v, r, p.zones, <<v.out>>, "True", "none")

(* process_page once the coordinates r are settled: an exception of the     *)
(* reconciliation leaves the function, otherwise the page is drawn.         *)
PageReconciled(p, r, im, pn, fnt) ==
    IF r.err # "none"
    THEN PageResult([image |-> im, heap |-> r.heap], r, p.zones, <<>>, "none", r.err)
    ELSE PageDrawn(p, r, create_visualization(im, r.heap, r.zones, pn, fnt))

(* process_page after parse_doctags without the `except ValueError` clause. *)
PageParsed_no_catch(p, adj, im, pn, fnt) ==
    IF p.err # "none"
    THEN PageResult([image |-> im, heap |-> <<>>], Unchanged(<<>>, <<>>), <<>>, <<>>,
                    "none", p.err)
    ELSE PageReconciled(p, process_page_coordinates(p.zones, [i \in 1..Len(p.zones) |-> i],
                                                    adj, im.width, im.height),
                        im, pn, fnt)

(* process_page after parse_doctags returned or raised (p): a ValueError    *)
(* leaves zones = [], any other exception leaves the function.              *)
PageParsed(p, adj, im, pn, fnt) ==
    IF p.err \notin ValueErrors \cup {"none"}
    THEN PageResult([image |-> im, heap |-> <<>>], Unchanged(<<>>, <<>>), p.zones, <<>>,
                    "none", p.err)
    ELSE PageReconciled(p,
                        IF p.err = "none"
                        THEN process_page_coordinates(p.zones, [i \in 1..Len(p.zones) |-> i],
                                                      adj, im.width, im.height)
                        ELSE Unchanged(<<>>, <<>>),
                        im, pn, fnt)

process_page(s, adj, im, pn, fnt) == PageParsed(parse_doctags(s), adj, im, pn, fnt)

(* The pages given to process_page: a DocTags file, a rendered page, the    *)
(* --adjust flag, the font found and the page number.                       *)

PageElems ==
    { Elem("zone", "text", <<10, 10, 100, 50>>, <<Text("Hello")>>),
      Elem("zone", "picture", <<100, 100, 600, 800>>, <<>>),
      Elem("zone", "picture", <<10, 10, 100, 50>>, <<>>),
      Elem("zone", "text", <<100, 100, 600, 800>>, <<Text("Hello")>>),
      Elem("nolocs", "text", <<0, 0, 0, 0>>, <<Text("Hello")>>),
      Elem("dangling", "text", <<10, 10, 100, 50>>, <<Text("Hello")>>) }

PageElemLists == UNION { [1..n -> PageElems] : n \in 0..MaxElems }

PageSizesDrawn == { <<500, 500>>, <<1275, 1650>> }

InitPage ==
    /\ pc = "start"
    /\ op = "none"
    /\ elems \in PageElemLists
    /\ layout \in Layouts
    /\ doc = FileOf(elems, layout)
    /\ adjust \in BOOLEAN
    /\ \E sz \in PageSizesDrawn : W = sz[1] /\ H = sz[2]
    /\ heap = <<>>
    /\ zones = <<>>
    /\ input = <<>>
    /\ scale = NoScale
    /\ err = "none"
    /\ image = [width |-> W, height |-> H, marks |-> <<>>]
    /\ canvas = <<>>
    /\ font \in Fonts
    /\ page_num \in PageNums
    /\ ret = "none"
    /\ margin = 0
    /\ max_width = 0
    /\ saved = <<>>
    /\ index = <<>>
    /\ NoTools

(* The state process_page leaves. *)
PageDone(r) ==
    /\ pc' = "done"
    /\ op' = "process_page"
    /\ image' = r.image
    /\ heap' = r.heap
    /\ zones' = r.zones
    /\ input' = r.input
    /\ scale' = r.scale
    /\ canvas' = r.out
    /\ ret' = r.ret
    /\ err' = r.err
    /\ UNCHANGED <<doc, elems, layout, adjust, W, H, font, page_num>>
    /\ UNCHANGED <<margin, max_width, saved, index>>
    /\ UNCHANGED tools

(* backend visualizer: process_page(pdf, page_num, doctags, output, dpi, adjust). *)
ProcessPage ==
    /\ pc = "start"
    /\ PageDone(process_page(doc, adjust, image, page_num, font))

NextPage == ProcessPage

SpecPage == InitPage /\ [][NextPage]_vars

----------------------------------------------------------------------------
(* Picture extraction.  A picture is [id, x1, y1, x2, y2, caption]; a saved *)
(* file is [name, box, width, height]: the name carries the picture id and  *)
(* the caption made safe, box is the region cropped and width, height are   *)
(* the size of the image written.                                           *)

(* backend/utils.py: validate_coordinates *)
validate_coordinates(x1, y1, x2, y2, width, height) ==
    /\ 0 <= x1 /\ x1 < x2 /\ x2 <= width
    /\ 0 <= y1 /\ y1 < y2 /\ y2 <= height

(* str.lower(), for the words of the model. *)
Lower(t) == CASE t = "Fig" -> "fig" [] t = "Hello" -> "hello" [] OTHER -> t

(* re.sub(r'[^\w\s-]', '', caption)[:30].strip().replace(' ', '_').lower() *)
SafeCaption(caption) ==
    [i \in DOMAIN caption |-> IF caption[i].k = "ws" THEN "_" ELSE Lower(caption[i].name)]

(* picture_{id}_{safe_caption}.png, or picture_{id}.png without caption. *)
FileName(picture) == [id |-> picture.id, caption |-> SafeCaption(picture.caption)]

(* new_height = int(cropped_img.height * (max_width / cropped_img.width)) *)
ResizedHeight(crop_width, crop_height, mw) ==
    FloatInt(FloatTimes(crop_height, FloatDivide(mw, crop_width)))

(* The rest of the loop body once the box <<x1, y1, x2, y2>> is valid: the  *)
(* files appended to saved_files, none when Image.resize raises (it         *)
(* refuses a height below 1) and the handler goes on to the next picture.   *)
SaveCrop(picture, x1, y1, x2, y2, mw) ==
    LET crop_width == x2 - x1
        crop_height == y2 - y1
        new_height == ResizedHeight(crop_width, crop_height, mw)
    IN IF crop_width > mw
       THEN IF new_height < 1 THEN <<>>
            ELSE << [name |-> FileName(picture), box |-> <<x1, y1, x2, y2>>,
                     width |-> mw, height |-> new_height] >>
       ELSE << [name |-> FileName(picture), box |-> <<x1, y1, x2, y2>>,
                width |-> crop_width, height |-> crop_height] >>

(* backend/page_treatment/picture_extractor.py: extract_and_save_pictures,  *)
(* the loop from the n-th picture on.                                       *)
RECURSIVE SavePictures(_, _, _, _, _, _)
SavePictures(im, h, pictures, n, mw, mg) ==
    IF n > Len(pictures) THEN <<>>
    ELSE LET picture == h[pictures[n]]
             x1 == Max2(0, picture.x1 - mg)
             y1 == Max2(0, picture.y1 - mg)
             x2 == Min2(im.width, picture.x2 + mg)
             y2 == Min2(im.height, picture.y2 + mg)
         IN (IF ~validate_coordinates(x1, y1, x2, y2, im.width, im.height) THEN <<>>
             ELSE SaveCrop(picture, x1, y1, x2, y2, mw))
            \o SavePictures(im, h, pictures, n + 1, mw, mg)

extract_and_save_pictures(im, h, pictures, mw, mg) == SavePictures(im, h, pictures, 1, mw, mg)

(* picture_extractor.py (legacy): extract_and_save_pictures *)
RECURSIVE LegacySavePictures(_, _, _, _, _, _)
LegacySavePictures(im, h, pictures, n, mw, mg) ==
    IF n > Len(pictures) THEN <<>>
    ELSE LET picture == h[pictures[n]]
             x1 == Max2(0, picture.x1 - mg)
             y1 == Max2(0, picture.y1 - mg)
             x2 == Min2(im.width, picture.x2 + mg)
             y2 == Min2(im.height, picture.y2 + mg)
         IN (IF x1 >= x2 \/ y1 >= y2 \/ x1 < 0 \/ y1 < 0 \/ x2 > im.width \/ y2 > im.height
             THEN <<>>
             ELSE SaveCrop(picture, x1, y1, x2, y2, mw))
            \o LegacySavePictures(im, h, pictures, n + 1, mw, mg)

legacy_extract_and_save_pictures(im, h, pictures, mw, mg) ==
    LegacySavePictures(im, h, pictures, 1, mw, mg)

(* backend/page_treatment/picture_extractor.py: create_html_index, the      *)
(* picture cards written: one for each pair of zip(pictures, saved_files).  *)
create_html_index(h, pictures, saved_files) ==
    [n \in 1..Min2(Len(pictures), Len(saved_files)) |->
        [src |-> saved_files[n].name,
         alt |-> h[pictures[n]].id,
         caption |-> h[pictures[n]].caption,
         coords |-> <<h[pictures[n]].x1, h[pictures[n]].y1,
                      h[pictures[n]].x2, h[pictures[n]].y2>>]]

(* The extraction runs: a picture list as the reconciliation leaves it,     *)
(* with the ids extract_pictures_from_doctags gives, the rendered page,     *)
(* --max-width and --margin.                                                *)

PictureX == { <<10, 0>>, <<10, 100>>, <<0, 1392>> }
PictureY == { <<0, 145>>, <<50, 51>> }
Captions == { <<>>, <<Text("Fig"), WS, Text("1")>> }
ExtractPages == { <<500, 500>>, <<1392, 700>> }
Margins == { 0, 10 }
MaxWidths == { 100, 1200 }

PictureShapes ==
    { [x1 |-> ex[1], y1 |-> ey[1], x2 |-> ex[2], y2 |-> ey[2], caption |-> c]
        : ex \in PictureX, ey \in PictureY, c \in Captions }

PictureLists ==
    UNION { { [i \in 1..n |-> [id |-> i, x1 |-> f[i].x1, y1 |-> f[i].y1,
                               x2 |-> f[i].x2, y2 |-> f[i].y2, caption |-> f[i].caption]]
                : f \in [1..n -> PictureShapes] } : n \in 0..MaxZones }

InitExtract ==
    /\ pc = "ready"
    /\ op = "none"
    /\ doc = <<>>
    /\ elems = <<>>
    /\ layout = "none"
    /\ adjust = FALSE
    /\ \E sz \in ExtractPages : W = sz[1] /\ H = sz[2]
    /\ input \in PictureLists
    /\ heap = input
    /\ zones = [i \in 1..Len(input) |-> i]
    /\ scale = NoScale
    /\ err = "none"
    /\ image = [width |-> W, height |-> H, marks |-> <<>>]
    /\ canvas = <<>>
    /\ font = [cw |-> 0, h |-> 0]
    /\ page_num \in PageNums
    /\ ret = "none"
    /\ margin \in Margins
    /\ max_width \in MaxWidths
    /\ saved = <<>>
    /\ index = <<>>
    /\ NoTools

Extracted(name, files) ==
    /\ pc' = "saved"
    /\ op' = name
    /\ saved' = files
    /\ UNCHANGED <<doc, elems, layout, adjust, W, H, heap, zones, input, scale, err>>
    /\ UNCHANGED <<image, canvas, font, page_num, ret, margin, max_width, index>>
    /\ UNCHANGED tools

(* backend picture extractor: extract_and_save_pictures. *)
ExtractAndSave ==
    /\ pc = "ready"
    /\ Extracted("extract_and_save_pictures",
                 extract_and_save_pictures(image, heap, zones, max_width, margin))

(* legacy picture extractor: extract_and_save_pictures. *)
LegacyExtractAndSave ==
    /\ pc = "ready"
    /\ Extracted("legacy.extract_and_save_pictures",
                 legacy_extract_and_save_pictures(image, heap, zones, max_width, margin))

(* backend picture extractor: create_html_index(pictures, saved_files, ...). *)
CreateHtmlIndex ==
    /\ pc = "saved"
    /\ op = "extract_and_save_pictures"
    /\ pc' = "indexed"
    /\ op' = "create_html_index"
    /\ index' = create_html_index(heap, zones, saved)
    /\ UNCHANGED <<doc, elems, layout, adjust, W, H, heap, zones, input, scale, err>>
    /\ UNCHANGED <<image, canvas, font, page_num, ret, margin, max_width, saved>>
    /\ UNCHANGED tools

NextExtract ==
    \/ ExtractAndSave
    \/ LegacyExtractAndSave
    \/ CreateHtmlIndex

SpecExtract == InitExtract /\ [][NextExtract]_vars

----------------------------------------------------------------------------
(* fix_scaling.py: the rewrite of the location markers of a DocTags file.   *)
(* The factors are floats <<num, den>>; the factors of the model are        *)
(* multiples of 1/2 or 1/4, so every product below is a float without       *)
(* rounding.                                                                *)

(* f"<loc_{n}>" as a token: a location marker when n prints as digits,      *)
(* text otherwise (a minus sign is not matched by \d+).                     *)
FormatLoc(n) == IF n >= 0 THEN Loc(n) ELSE [k |-> "text", name |-> "<loc_->", v |-> n]

(* apply_scaling without the max(0, ...) lines. *)
apply_scaling_no_clamp(q, xf, yf, xo, yo) ==
    << FormatLoc(IntMul(q[1].v, xf) + xo), FormatLoc(IntMul(q[2].v, yf) + yo),
       FormatLoc(IntMul(q[3].v, xf) + xo), FormatLoc(IntMul(q[4].v, yf) + yo) >>

(* apply_scaling(match): q is the four markers matched. *)
apply_scaling(q, xf, yf, xo, yo) ==
    << FormatLoc(Max2(0, IntMul(q[1].v, xf) + xo)), FormatLoc(Max2(0, IntMul(q[2].v, yf) + yo)),
       FormatLoc(Max2(0, IntMul(q[3].v, xf) + xo)), FormatLoc(Max2(0, IntMul(q[4].v, yf) + yo)) >>

(* re.sub(LOC_PATTERN, apply_scaling, s) from position pos on: the matches  *)
(* are taken from left to right and do not overlap.                         *)
RECURSIVE SubLocs(_, _, _, _, _, _)
SubLocs(s, pos, xf, yf, xo, yo) ==
    IF pos > Len(s) THEN <<>>
    ELSE IF QuadAt(s, pos)
         THEN apply_scaling(SubSeq(s, pos, pos + 3), xf, yf, xo, yo)
                \o SubLocs(s, pos + 4, xf, yf, xo, yo)
         ELSE <<s[pos]>> \o SubLocs(s, pos + 1, xf, yf, xo, yo)

fix_scaling(doctags_content, xf, yf, xo, yo) == SubLocs(doctags_content, 1, xf, yf, xo, yo)

(* The files given to fix_scaling and its arguments. *)

FixBoxes == { <<100, 100, 200, 200>>, <<3, 5, 7, 9>> }

FixElems ==
    { Elem("zone", "text", bx, <<>>) : bx \in FixBoxes }
    \cup { Elem("zone", "picture", <<3, 5, 7, 9>>, <<WS, Text("a"), Loc(7), Text("b"), WS>>),
           Elem("nolocs", "text", <<0, 0, 0, 0>>, <<Text("Hello")>>),
           Elem("nested", "picture", <<100, 100, 200, 200>>, <<>>),
           Elem("locclose", "loc", <<3, 5, 7, 9>>, <<>>) }

FixElemLists == UNION { [1..n -> FixElems] : n \in 0..MaxElems }

XFactors == { <<1, 2>>, <<-1, 2>>, <<3, 2>> }
YFactors == { <<1, 2>>, <<-1, 4>> }
XOffsets == { 0, 5, -20 }
YOffsets == { 0, 5 }

InitFix ==
    /\ pc = "start"
    /\ op = "none"
    /\ elems \in FixElemLists
    /\ layout \in Layouts
    /\ doc = FileOf(elems, layout)
    /\ adjust = FALSE
    /\ W = 1 /\ H = 1
    /\ heap = <<>>
    /\ zones = <<>>
    /\ input = <<>>
    /\ scale = NoScale
    /\ err = "none"
    /\ NoRendering
    /\ NoServices
    /\ fixed = <<>>
    /\ x_factor \in XFactors
    /\ y_factor \in YFactors
    /\ x_offset \in XOffsets
    /\ y_offset \in YOffsets

(* fix_scaling.py main: fixed_content = fix_scaling(doctags_content, ...). *)
FixScaling ==
    /\ pc = "start"
    /\ pc' = "fixed"
    /\ op' = "fix_scaling"
    /\ fixed' = fix_scaling(doc, x_factor, y_factor, x_offset, y_offset)
    /\ UNCHANGED <<doc, elems, layout, adjust, W, H, heap, zones, input, scale, err>>
    /\ UNCHANGED rendering
    /\ UNCHANGED <<x_factor, y_factor, x_offset, y_offset>>
    /\ UNCHANGED services

NextFix == FixScaling

SpecFix == InitFix /\ [][NextFix]_vars

----------------------------------------------------------------------------
(* backend/batch_treatment/batch_processor.py: a batch over the pages of a  *)
(* PDF.  run() submits one process_page call per page to a thread pool;     *)
(* every call runs the analyzer, the visualizer and the picture extractor   *)
(* as subprocesses, and all of them exchange DocTags through the one file   *)
(* results/output.doctags.txt.  The pause, resume and cancel endpoints call *)
(* into the processor from request threads.  log_message is taken not to    *)
(* raise.                                                                   *)

(* The variables of the single-page programs, idle during a batch. *)
programs == <<pc, op, doc, elems, layout, adjust, W, H, heap, zones, input, scale, err,
              rendering, fixed, x_factor, y_factor, x_offset, y_offset>>

NoPrograms ==
    /\ pc = "start"
    /\ op = "none"
    /\ elems = <<>>
    /\ layout = "bare"
    /\ doc = <<>>
    /\ adjust = TRUE
    /\ W = 1 /\ H = 1
    /\ heap = <<>>
    /\ zones = <<>>
    /\ input = <<>>
    /\ scale = NoScale
    /\ err = "none"
    /\ NoRendering
    /\ fixed = <<>>
    /\ x_factor = <<1, 1>>
    /\ y_factor = <<1, 1>>
    /\ x_offset = 0
    /\ y_offset = 0

(* pages = list(range(start_page, end_page + 1)) of a two-page batch. *)
Pages == {1, 2}

(* BATCH_WORKERS of backend/config.py: the size of the thread pool. *)
BATCH_WORKERS == 4

(* The pause, resume and cancel requests one batch receives. *)
MaxCalls == 3

(* A DocTags file that does not exist; an existing one is named by the page *)
(* whose analysis it holds.                                                 *)
NoFile == 0

(* self.state as __init__ builds it. *)
NewState ==
    [ status |-> "initializing", processed |-> 0, total |-> Cardinality(Pages),
      completed |-> FALSE, paused |-> FALSE, cancelled |-> FALSE,
      page_statuses |-> [p \in Pages |-> "pending"],
      stages |-> [analysis |-> 0, visualization |-> 0, extraction |-> 0],
      results |-> [successful |-> 0, failed |-> 0] ]

update_page_status(st, page, status) == [st EXCEPT !.page_statuses[page] = status]

update_stage_progress(st, stage) == [st EXCEPT !.stages[stage] = @ + 1]

(* The `with self.lock:` block at the end of the try body of process_page. *)
count_success(st) ==
    [st EXCEPT !.results.successful = @ + 1, !.processed = @ + 1]

count_failure_twice(st) ==
    [st EXCEPT !.results.failed = @ + 1, !.processed = @ + 2]

(* The `with self.lock:` block of the except clause of process_page. *)
count_failure(st) ==
    [st EXCEPT !.results.failed = @ + 1, !.processed = @ + 1]

(* The final `with self.lock:` block of run(). *)
finish_run(st) ==
    [st EXCEPT !.completed = TRUE,
               !.status = IF st.cancelled THEN "cancelled" ELSE "completed"]

(* The `with self.lock:` block of the except clause of run(). *)
fail_run(st) == [st EXCEPT !.completed = TRUE, !.status = "error"]

(* The calls of process_page that occupy a worker thread of the pool. *)
Busy == { p \in Pages : task[p].pc \notin {"new", "queued", "returned"} }

Goto(p, label) == [task EXCEPT ![p].pc = label]

Return(p, value) == [task EXCEPT ![p].pc = "returned", ![p].result = value]

Gates == {"gate1", "gate2", "gate3"}

AfterGate(label) ==
    CASE label = "gate1" -> "analyze"
      [] label = "gate2" -> "viz_copy"
      [] OTHER -> "ext_copy"

InitBatch ==
    /\ NoPrograms
    /\ state = NewState
    /\ pause_event = TRUE
    /\ disk = [output |-> NoFile, page |-> [p \in Pages |-> NoFile]]
    /\ task = [p \in Pages |-> [pc |-> "new", viz |-> NoFile, ext |-> NoFile,
                                counted |-> 0, result |-> "none"]]
    /\ runner = "created"
    /\ calls = 0
    /\ jobs = <<>>
    /\ worker = "none"

(* run(): the status becomes 'processing' and every page is submitted. *)
RunStart ==
    /\ runner = "created"
    /\ runner' = "waiting"
    /\ state' = [state EXCEPT !.status = "processing"]
    /\ task' = [p \in Pages |-> [task[p] EXCEPT !.pc = "queued"]]
    /\ UNCHANGED <<pause_event, disk, calls, jobs, worker>>
    /\ UNCHANGED programs

(* A free worker thread of the pool takes the call for page p. *)
StartTask(p) ==
    /\ task[p].pc = "queued"
    /\ Cardinality(Busy) < BATCH_WORKERS
    /\ task' = Goto(p, "gate1")
    /\ UNCHANGED <<state, pause_event, disk, runner, calls, jobs, worker>>
    /\ UNCHANGED programs

(* self.pause_event.wait(), then the check of state['cancelled']; behind   *)
(* the first gate the page is marked 'processing'.                         *)
Gate(p) ==
    /\ task[p].pc \in Gates
    /\ pause_event
    /\ IF state.cancelled
       THEN /\ task' = Return(p, "False")
            /\ UNCHANGED state
       ELSE /\ task' = Goto(p, AfterGate(task[p].pc))
            /\ state' = IF task[p].pc = "gate1"
                        THEN update_page_status(state, p, "processing")
                        ELSE state
    /\ UNCHANGED <<pause_event, disk, runner, calls, jobs, worker>>
    /\ UNCHANGED programs

(* run_analyzer: the analyzer subprocess for page p writes the shared file *)
(* results/output.doctags.txt, or fails.                                   *)
RunAnalyzer(p) ==
    /\ task[p].pc = "analyze"
    /\ \E success \in BOOLEAN :
         IF success
         THEN /\ disk' = [disk EXCEPT !.output = p]
              /\ task' = Goto(p, "copy")
         ELSE /\ task' = Goto(p, "failing")
              /\ UNCHANGED disk
    /\ UNCHANGED <<state, pause_event, runner, calls, jobs, worker>>
    /\ UNCHANGED programs

(* run_analyzer, after the subprocess: the shared file is copied to        *)
(* page_N.doctags.txt; process_page then counts the analysis stage.        *)
CopyDoctags(p) ==
    /\ task[p].pc = "copy"
    /\ IF disk.output # NoFile
       THEN /\ disk' = [disk EXCEPT !.page[p] = disk.output]
            /\ state' = update_stage_progress(state, "analysis")
            /\ task' = Goto(p, "gate2")
       ELSE /\ task' = Goto(p, "failing")
            /\ UNCHANGED <<disk, state>>
    /\ UNCHANGED <<pause_event, runner, calls, jobs, worker>>
    /\ UNCHANGED programs

(* run_visualizer and run_extractor, before the subprocess: the page's     *)
(* file is copied back over the shared file.                               *)
RestoreDoctags(p) ==
    /\ task[p].pc \in {"viz_copy", "ext_copy"}
    /\ disk' = IF disk.page[p] # NoFile THEN [disk EXCEPT !.output = disk.page[p]] ELSE disk
    /\ task' = Goto(p, IF task[p].pc = "viz_copy" THEN "viz_run" ELSE "ext_run")
    /\ UNCHANGED <<state, pause_event, runner, calls, jobs, worker>>
    /\ UNCHANGED programs

(* run_visualizer: the subprocess reads --doctags, the shared file;        *)
(* process_page counts the stage when it succeeds.                         *)
RunVisualizer(p) ==
    /\ task[p].pc = "viz_run"
    /\ \E success \in BOOLEAN :
         IF success
         THEN /\ task' = [task EXCEPT ![p].pc = "gate3", ![p].viz = disk.output]
              /\ state' = update_stage_progress(state, "visualization")
         ELSE /\ task' = Goto(p, "failing")
              /\ UNCHANGED state
    /\ UNCHANGED <<pause_event, disk, runner, calls, jobs, worker>>
    /\ UNCHANGED programs

(* run_extractor: the subprocess reads the shared file; a failure is only  *)
(* logged, and process_page counts the stage.                              *)
RunExtractor(p) ==
    /\ task[p].pc = "ext_run"
    /\ task' = [task EXCEPT ![p].pc = "count", ![p].ext = disk.output]
    /\ state' = update_stage_progress(state, "extraction")
    /\ UNCHANGED <<pause_event, disk, runner, calls, jobs, worker>>
    /\ UNCHANGED programs

(* process_page: the page is counted as successful. *)
CountSuccess(p) ==
    /\ task[p].pc = "count"
    /\ state' = count_success(state)
    /\ task' = [task EXCEPT ![p].pc = "completing", ![p].counted = @ + 1]
    /\ UNCHANGED <<pause_event, disk, runner, calls, jobs, worker>>
    /\ UNCHANGED programs

(* process_page: update_page_status(page_num, 'completed'); return True. *)
CompletePage(p) ==
    /\ task[p].pc = "completing"
    /\ state' = update_page_status(state, p, "completed")
    /\ task' = Return(p, "True")
    /\ UNCHANGED <<pause_event, disk, runner, calls, jobs, worker>>
    /\ UNCHANGED programs

(* process_page, except clause: the page is counted as failed. *)
CountFailure(p) ==
    /\ task[p].pc = "failing"
    /\ state' = count_failure(state)
    /\ task' = [task EXCEPT ![p].pc = "failed", ![p].counted = @ + 1]
    /\ UNCHANGED <<pause_event, disk, runner, calls, jobs, worker>>
    /\ UNCHANGED programs

(* process_page, except clause: update_page_status(page_num, 'failed');    *)
(* return False.                                                           *)
FailPage(p) ==
    /\ task[p].pc = "failed"
    /\ state' = update_page_status(state, p, "failed")
    /\ task' = Return(p, "False")
    /\ UNCHANGED <<pause_event, disk, runner, calls, jobs, worker>>
    /\ UNCHANGED programs

(* The steps of the call of process_page for page p. *)
ProcessPageStep(p) ==
    \/ StartTask(p)
    \/ Gate(p)
    \/ RunAnalyzer(p)
    \/ CopyDoctags(p)
    \/ RestoreDoctags(p)
    \/ RunVisualizer(p)
    \/ RunExtractor(p)
    \/ CountSuccess(p)
    \/ CompletePage(p)
    \/ CountFailure(p)
    \/ FailPage(p)

(* run(): the `with ThreadPoolExecutor` block is left when every submitted *)
(* call has returned; the report is written unless the batch is cancelled, *)
(* and the final state is set.                                             *)
RunFinish ==
    /\ runner = "waiting"
    /\ \A p \in Pages : task[p].pc = "returned"
    /\ runner' = "done"
    /\ state' = finish_run(state)
    /\ UNCHANGED <<pause_event, disk, task, calls, jobs, worker>>
    /\ UNCHANGED programs

(* run(): generate_report raises, the except clause sets the final state. *)
RunError ==
    /\ runner = "waiting"
    /\ \A p \in Pages : task[p].pc = "returned"
    /\ ~state.cancelled
    /\ runner' = "done"
    /\ state' = fail_run(state)
    /\ UNCHANGED <<pause_event, disk, task, calls, jobs, worker>>
    /\ UNCHANGED programs

RunStep == RunStart \/ RunFinish \/ RunError

(* pause(), called by the /pause-batch endpoint. *)
Pause ==
    /\ calls < MaxCalls
    /\ calls' = calls + 1
    /\ pause_event' = FALSE
    /\ state' = [state EXCEPT !.paused = TRUE]
    /\ UNCHANGED <<disk, task, runner, jobs, worker>>
    /\ UNCHANGED programs

(* resume(), called by the /resume-batch endpoint. *)
Resume ==
    /\ calls < MaxCalls
    /\ calls' = calls + 1
    /\ pause_event' = TRUE
    /\ state' = [state EXCEPT !.paused = FALSE]
    /\ UNCHANGED <<disk, task, runner, jobs, worker>>
    /\ UNCHANGED programs

(* cancel(), called by the /cancel-batch endpoint. *)
Cancel ==
    /\ calls < MaxCalls
    /\ calls' = calls + 1
    /\ pause_event' = TRUE
    /\ state' = [state EXCEPT !.cancelled = TRUE]
    /\ UNCHANGED <<disk, task, runner, jobs, worker>>
    /\ UNCHANGED programs

NextBatch ==
    \/ RunStart
    \/ \E p \in Pages : StartTask(p)
    \/ \E p \in Pages : Gate(p)
    \/ \E p \in Pages : RunAnalyzer(p)
    \/ \E p \in Pages : CopyDoctags(p)
    \/ \E p \in Pages : RestoreDoctags(p)
    \/ \E p \in Pages : RunVisualizer(p)
    \/ \E p \in Pages : RunExtractor(p)
    \/ \E p \in Pages : CountSuccess(p)
    \/ \E p \in Pages : CompletePage(p)
    \/ \E p \in Pages : CountFailure(p)
    \/ \E p \in Pages : FailPage(p)
    \/ RunFinish
    \/ RunError
    \/ Pause
    \/ Resume
    \/ Cancel

SpecBatch == InitBatch /\ [][NextBatch]_vars

(* The same batch when every thread that can take a step eventually takes  *)
(* one: the pool's workers and the thread of run() are scheduled by the    *)
(* operating system; the requests of the user are under no obligation.     *)
SpecBatchFair ==
    /\ InitBatch
    /\ [][NextBatch]_vars
    /\ \A p \in Pages : WF_vars(ProcessPageStep(p))
    /\ WF_vars(RunStep)

----------------------------------------------------------------------------
(* api.py: the job table of the API.  /api/process queues a job and starts *)
(* its process_document thread; the force-complete endpoint and the        *)
(* watchdog thread write the same entry of `jobs`, and nothing locks it.   *)

(* The `pages` a job is started with: valid_pages of process_pdf for a     *)
(* PDF of two pages.                                                       *)
JobPages == { <<1>>, <<2>>, <<1, 2>>, <<2, 1>>, <<1, 1>> }

(* How process_page ends: normally, in one of its time-limit fallbacks, or *)
(* in its except clause.  It returns True in every case.                   *)
PageOutcomes == {"complete", "time_limit", "error"}

InitJobs ==
    /\ NoPrograms
    /\ state = <<>>
    /\ pause_event = FALSE
    /\ disk = <<>>
    /\ task = <<>>
    /\ runner = "none"
    /\ calls = 0
    /\ jobs = [ status |-> "queued", progress |-> 0, current_page |-> 0,
                current_step |-> "none", total_pages |-> 0,
                completed_pages |-> <<>>, errors |-> <<>> ]
    /\ \E pages \in JobPages : worker = [pc |-> "start", pages |-> pages, i |-> 1]

(* process_document, before the loop. *)
DocumentStart ==
    /\ worker.pc = "start"
    /\ jobs' = [jobs EXCEPT !.total_pages = Len(worker.pages), !.status = "running"]
    /\ worker' = [worker EXCEPT !.pc = "loop"]
    /\ UNCHANGED <<state, pause_event, disk, task, runner, calls>>
    /\ UNCHANGED programs

(* process_document enters the loop body for the next page and calls       *)
(* process_page, which starts by writing the job's status.                 *)
PageStart ==
    /\ worker.pc = "loop"
    /\ worker.i <= Len(worker.pages)
    /\ jobs' = [jobs EXCEPT !.status = "running",
                            !.progress = 10,
                            !.current_page = worker.pages[worker.i],
                            !.current_step = "Starting page processing"]
    /\ worker' = [worker EXCEPT !.pc = "page"]
    /\ UNCHANGED <<state, pause_event, disk, task, runner, calls>>
    /\ UNCHANGED programs

(* process_page runs its steps and returns. *)
PageEnd ==
    /\ worker.pc = "page"
    /\ \E outcome \in PageOutcomes :
         jobs' = [jobs EXCEPT
                    !.completed_pages = Append(@, worker.pages[worker.i]),
                    !.errors = IF outcome = "complete" THEN @ ELSE Append(@, outcome),
                    !.progress = IF outcome = "complete" THEN 100
                                 ELSE IF outcome = "time_limit" THEN 30 ELSE @,
                    !.current_step = IF outcome = "complete" THEN "Page processing complete"
                                     ELSE IF outcome = "time_limit" THEN "Running analyzer" ELSE @]
    /\ worker' = [worker EXCEPT !.pc = "loop", !.i = @ + 1]
    /\ UNCHANGED <<state, pause_event, disk, task, runner, calls>>
    /\ UNCHANGED programs

(* process_document after the loop: create_index_html, then the job is     *)
(* completed; an exception takes the except clause instead.                *)
DocumentEnd ==
    /\ worker.pc = "loop"
    /\ worker.i > Len(worker.pages)
    /\ \E raised \in BOOLEAN :
         jobs' = IF raised
                 THEN [jobs EXCEPT !.status = "error", !.errors = Append(@, "index")]
                 ELSE [jobs EXCEPT !.status = "completed", !.progress = 100,
                                   !.current_step = "Done"]
    /\ worker' = [worker EXCEPT !.pc = "finally"]
    /\ UNCHANGED <<state, pause_event, disk, task, runner, calls>>
    /\ UNCHANGED programs

(* process_document, finally clause. *)
Finally ==
    /\ worker.pc = "finally"
    /\ jobs' = IF jobs.status = "running" THEN [jobs EXCEPT !.status = "completed"] ELSE jobs
    /\ worker' = [worker EXCEPT !.pc = "done"]
    /\ UNCHANGED <<state, pause_event, disk, task, runner, calls>>
    /\ UNCHANGED programs

(* POST /api/jobs/<job_id>/force-complete: refused unless the job runs. *)
ForceCompleteJob ==
    /\ jobs.status = "running"
    /\ jobs' = [jobs EXCEPT !.status = "completed", !.progress = 100,
                            !.current_step = "Force completed by user",
                            !.errors = Append(@, "user")]
    /\ UNCHANGED <<state, pause_event, disk, task, runner, calls, worker>>
    /\ UNCHANGED programs

(* The watchdog thread finds the job running for more than 30 minutes. *)
Watchdog ==
    /\ jobs.status = "running"
    /\ jobs' = [jobs EXCEPT !.status = "completed", !.progress = 100,
                            !.current_step = "Force completed by watchdog",
                            !.errors = Append(@, "watchdog")]
    /\ UNCHANGED <<state, pause_event, disk, task, runner, calls, worker>>
    /\ UNCHANGED programs

NextJobs ==
    \/ DocumentStart
    \/ PageStart
    \/ PageEnd
    \/ DocumentEnd
    \/ Finally
    \/ ForceCompleteJob
    \/ Watchdog

SpecJobs == InitJobs /\ [][NextJobs]_vars

----------------------------------------------------------------------------
(* Properties of the reconciliation, checked under SpecReconcile. *)

InMaxX == SetMax({ input[i].x2 : i \in DOMAIN input })
InMaxY == SetMax({ input[i].y2 : i \in DOMAIN input })
OnGrid == InMaxX <= 500 /\ InMaxY <= 500

(* The box that the caller's i-th zone carries now. *)
Out(i) == heap[zones[i]]

Box(z) == <<z.x1, z.y1, z.x2, z.y2>>

Called(name) == pc = "done" /\ op = name /\ input # <<>>

(* C1: on a non-empty list whose largest x2 and y2 are at most 500,         *)
(* auto_adjust_coordinates returns the zones in input order, each           *)
(* coordinate rescaled per axis with truncation, x by W/500 and y by H/500, *)
(* and applies no heuristic scale; process_page of the backend visualizer  *)
(* does the same on such a list, with or without --adjust.                  *)
C1_GridNormalisation ==
    ((Called("utils.auto_adjust_coordinates") \/ Called("visualizer.process_page"))
      /\ OnGrid) =>
        /\ err = "none"
        /\ scale = NoScale
        /\ Len(zones) = Len(input)
        /\ \A i \in DOMAIN input :
              /\ Out(i).type = input[i].type
              /\ Out(i).x1 = (input[i].x1 * W) \div 500
              /\ Out(i).x2 = (input[i].x2 * W) \div 500
              /\ Out(i).y1 = (input[i].y1 * H) \div 500
              /\ Out(i).y2 = (input[i].y2 * H) \div 500

C1_Witness ==
    /\ Called("utils.auto_adjust_coordinates")
    /\ W = 1000 /\ H = 1000
    /\ Len(input) = 1
    /\ Box(input[1]) = <<10, 10, 100, 50>>
    /\ Box(Out(1)) = <<20, 20, 200, 100>>

(* The two-step rule for one axis: the conservative value, replaced by      *)
(* pageSize/maxCoord when the mismatch exceeds a factor of 5.               *)
TwoStepScale(maxCoord, pageSize) ==
    LET ratio == <<pageSize, maxCoord>>
        conservative == IF maxCoord > pageSize
                        THEN (IF pageSize <= maxCoord THEN ratio ELSE <<1, 1>>)
                        ELSE (IF 2 * pageSize >= maxCoord THEN ratio ELSE <<1, 2>>)
    IN IF maxCoord > 5 * pageSize \/ 5 * maxCoord < pageSize THEN ratio ELSE conservative

(* C2: off the grid, auto_adjust_coordinates scales x1, x2 by the two-step  *)
(* factor of (max x2, W) and y1, y2 by that of (max y2, H), each with       *)
(* truncation, for every axis whose maximum is positive.                    *)
C2_HeuristicScale ==
    (Called("utils.auto_adjust_coordinates") /\ ~OnGrid) =>
        /\ err = "none"
        /\ scale # NoScale
        /\ Len(zones) = Len(input)
        /\ InMaxX > 0 =>
              /\ scale[1] = TwoStepScale(InMaxX, W)
              /\ \A i \in DOMAIN input :
                    /\ Out(i).x1 = (input[i].x1 * scale[1][1]) \div scale[1][2]
                    /\ Out(i).x2 = (input[i].x2 * scale[1][1]) \div scale[1][2]
        /\ InMaxY > 0 =>
              /\ scale[2] = TwoStepScale(InMaxY, H)
              /\ \A i \in DOMAIN input :
                    /\ Out(i).y1 = (input[i].y1 * scale[2][1]) \div scale[2][2]
                    /\ Out(i).y2 = (input[i].y2 * scale[2][1]) \div scale[2][2]

(* Both axes positive, x on the override (600 * 5 < 4000), y on the         *)
(* conservative rule (700 < 800 <= 5 * 700).                                *)
C2_Witness ==
    /\ Called("utils.auto_adjust_coordinates")
    /\ ~OnGrid
    /\ W = 4000 /\ H = 700
    /\ InMaxX = 600 /\ InMaxY = 800
    /\ scale = << <<4000, 600>>, <<700, 800>> >>
    /\ \E i \in DOMAIN input : Box(input[i]) = <<100, 100, 600, 800>>
                               /\ Box(Out(i)) = <<666, 87, 4000, 700>>

HeuristicCall ==
    \/ Called("utils.auto_adjust_coordinates")
    \/ Called("legacy.auto_adjust_coordinates")
    \/ Called("legacy.visualizer.process_page") /\ adjust

(* C3: in every implementation of the heuristic branch, a list with         *)
(* max x2 = 0 and max y2 > 500 (or max y2 = 0 and max x2 > 500) is          *)
(* reconciled without error, with scale 1.0 on the axis whose maximum is 0. *)
C3_NoDivisionByZero ==
    (HeuristicCall /\ (\/ InMaxX = 0 /\ InMaxY > 500
                       \/ InMaxY = 0 /\ InMaxX > 500)) =>
        /\ err = "none"
        /\ scale # NoScale
        /\ InMaxX = 0 => REq(scale[1], <<1, 1>>)
        /\ InMaxY = 0 => REq(scale[2], <<1, 1>>)

AllZeroCorner == \A i \in DOMAIN input : input[i].x2 = 0 /\ input[i].y2 = 0

C5_IdentityBranch ==
    /\ (Called("visualizer.process_page") /\ ~adjust /\ ~OnGrid) =>
          /\ err = "none"
          /\ scale = NoScale
          /\ Len(zones) = Len(input)
          /\ \A i \in DOMAIN input : Out(i) = input[i]
    /\ (pc = "done" /\ input = <<>>) => (zones = <<>> /\ err = "none")

C5_Witness ==
    /\ Called("visualizer.process_page")
    /\ ~adjust /\ ~OnGrid
    /\ W = 1000
    /\ \E i \in DOMAIN input : Box(Out(i)) = <<100, 100, 600, 800>>

(* C6: in picture extraction, whenever every picture has x2 <= 500 and      *)
(* y2 <= 500 the boxes are rescaled by W/500 and H/500, whether or not      *)
(* --adjust is set.                                                         *)
C6_GridRegardlessOfAdjust ==
    ((Called("picture_extractor.main") \/ Called("legacy.picture_extractor.main"))
      /\ OnGrid) =>
        /\ Len(zones) = Len(input)
        /\ \A i \in DOMAIN input :
              /\ Out(i).x1 = (input[i].x1 * W) \div 500
              /\ Out(i).x2 = (input[i].x2 * W) \div 500
              /\ Out(i).y1 = (input[i].y1 * H) \div 500
              /\ Out(i).y2 = (input[i].y2 * H) \div 500

(* The list reconciled against twice the page size. *)
Doubled == normalize_coordinates(input, [i \in DOMAIN input |-> i], 2 * W, 2 * H, 500)

DoubledOut(i) == Doubled.heap[Doubled.zones[i]]

SameRatio(c2, c1) == c2 = 2 * c1 \/ c2 = 2 * c1 + 1

(* C7: on the grid path, every coordinate reconciled against (2W, 2H) is    *)
(* twice the coordinate reconciled against (W, H), or one more.             *)
C7_ScaleMonotonicity ==
    (Called("utils.auto_adjust_coordinates") /\ OnGrid) =>
        \A i \in DOMAIN input :
            /\ SameRatio(DoubledOut(i).x1, Out(i).x1)
            /\ SameRatio(DoubledOut(i).y1, Out(i).y1)
            /\ SameRatio(DoubledOut(i).x2, Out(i).x2)
            /\ SameRatio(DoubledOut(i).y2, Out(i).y2)

(* A coordinate where truncation shows: 10 -> 25 on width 1275, 51 on 2550. *)
C7_Witness ==
    /\ Called("utils.auto_adjust_coordinates")
    /\ OnGrid
    /\ W = 1275
    /\ \E i \in DOMAIN input :
          input[i].x1 = 10 /\ Out(i).x1 = 25 /\ DoubledOut(i).x1 = 51

(* C8: after any reconciliation the records that were passed in still hold  *)
(* their raw boxes.                                                         *)
C8_RawBoxesKept ==
    pc = "done" => \A i \in DOMAIN input : heap[i] = input[i]

----------------------------------------------------------------------------
(* Properties of the parsers, checked under SpecParse. *)

ParserRan == pc # "start" /\ op \in {"parse_doctags", "legacy.parse_doctags"}

BlankFile == \A i \in DOMAIN doc : doc[i].k = "ws"

HasWrapper ==
    \E i, j \in DOMAIN doc : i < j /\ doc[i] = Open("doctag") /\ doc[j] = Close("doctag")

(* C9: parse_doctags fails with the empty-document error on a blank file    *)
(* and with the malformed-document error on a non-blank file without a      *)
(* <doctag>...</doctag> wrapper, and returns no zones in either case.       *)
C9_ParserErrors ==
    ParserRan =>
        /\ BlankFile => (err = EmptyError /\ pc = "raised" /\ zones = <<>>)
        /\ (~BlankFile /\ ~HasWrapper) =>
              (err = NoDoctagError /\ pc = "raised" /\ zones = <<>>)

(* A wrapped file of closed, non-nested zone elements. *)
WellFormedFile ==
    layout = "wrapped" /\ \A i \in DOMAIN elems : elems[i].shape = "zone"

(* C10: on a well-formed file parse_doctags does not fail and returns, for  *)
(* every zone element <name><loc*4>content</name>, a zone whose kind is     *)
(* name and whose box is the element's quadruple, whatever the name.        *)
C10_OpenVocabulary ==
    (pc # "start" /\ op = "parse_doctags" /\ WellFormedFile) =>
        /\ err = "none"
        /\ \A i \in DOMAIN elems :
              \E n \in DOMAIN input :
                  /\ input[n].type = elems[i].kind
                  /\ Box(input[n]) = elems[i].box

(* C11.  Duplicate suppression in the backend parse_doctags.  The list      *)
(* collected before the sort starts with the zones of the per-kind scan;    *)
(* no zone the catch-all scan contributes has the (kind, x1, y1) of a zone  *)
(* that precedes it in that list; every zone the per-kind scan found is in  *)
(* the output as many times as the per-kind scan found it; and in a file    *)
(* made of well-formed located elements, the output has one zone for each   *)
(* element of a built-in kind.                                              *)
ZoneKey(z) == TagKey(z.type, z.x1, z.y1)

Count(s, z) == Cardinality({ n \in DOMAIN s : s[n] = z })

BuiltIn == Range(tag_types)

(* The (kind, box) pairs of the zone elements of a file, one per element. *)
RECURSIVE LocatedElements(_)
LocatedElements(es) ==
    IF es = <<>> THEN <<>>
    ELSE (CASE Head(es).shape = "zone" -> << <<Head(es).kind, Head(es).box>> >>
            [] Head(es).shape = "nested" ->
                 << <<Head(es).kind, Head(es).box>>, <<"text", InnerBox>> >>
            [] OTHER -> <<>>)
         \o LocatedElements(Tail(es))

AllLocated == \A n \in DOMAIN elems : elems[n].shape \in {"zone", "nested"}

KindBox(z) == <<z.type, <<z.x1, z.y1, z.x2, z.y2>> >>

C11_DuplicateSuppression ==
    (op = "parse_doctags" /\ err = "none") =>
        LET c == DoctagMatch(doc).content
            typed == TypedZones(c, 1)
            all == CollectedZones(c)
            els == LocatedElements(elems)
        IN /\ Len(all) >= Len(typed)
           /\ SubSeq(all, 1, Len(typed)) = typed
           /\ \A n \in (Len(typed) + 1)..Len(all) :
                 \A m \in 1..(n - 1) : ZoneKey(all[m]) # ZoneKey(all[n])
           /\ \A n \in DOMAIN typed : Count(input, typed[n]) = Count(typed, typed[n])
           /\ AllLocated =>
                 \A e \in Range(els) :
                     e[1] \in BuiltIn =>
                        Cardinality({ n \in DOMAIN input : KindBox(input[n]) = e })
                          = Count(els, e)

(* A text zone and a formula zone on the same box: the per-kind scan finds  *)
(* the first, the catch-all scan meets both and adds only the second.       *)
C11_Witness ==
    /\ op = "parse_doctags"
    /\ layout = "wrapped"
    /\ elems = << Elem("zone", "text", <<10, 10, 100, 50>>, <<Text("Hello")>>),
                  Elem("zone", "formula", <<10, 10, 100, 50>>, <<Text("Hello")>>) >>
    /\ Len(input) = 2
    /\ Count(input, [type |-> "text", x1 |-> 10, y1 |-> 10, x2 |-> 100, y2 |-> 50,
                     content |-> <<Text("Hello")>>]) = 1

(* C12.  Dangling tag.  In a wrapped file whose first element is an opening *)
(* tag with a location quadruple and no closing tag, followed by            *)
(* well-formed zones, parse_doctags (backend and legacy) returns no zone    *)
(* for the dangling tag and one zone, with its own box, for every zone      *)
(* that follows.                                                            *)
DanglingThenZones ==
    /\ Len(elems) >= 2
    /\ elems[1].shape = "dangling"
    /\ \A n \in 2..Len(elems) : elems[n].shape = "zone"

C12_DanglingTag ==
    (op \in {"parse_doctags", "legacy.parse_doctags"} /\ layout = "wrapped"
        /\ DanglingThenZones) =>
        /\ err = "none"
        /\ Len(input) = Len(elems) - 1
        /\ \A n \in 2..Len(elems) :
              Cardinality({ m \in DOMAIN input :
                              KindBox(input[m]) = <<elems[n].kind, elems[n].box>> })
                = Cardinality({ m \in 2..Len(elems) :
                                  elems[m].kind = elems[n].kind /\ elems[m].box = elems[n].box })

(* C13.  Stray location markers are stripped from display text: no zone     *)
(* returned by parse_doctags (backend or legacy) has a <loc_N> marker in    *)
(* its content, and no picture returned by extract_pictures_from_doctags    *)
(* has one in its caption.                                                  *)
HasLoc(s) == \E n \in DOMAIN s : s[n].k = "loc"

C13_StrayMarkersStripped ==
    /\ op \in {"parse_doctags", "legacy.parse_doctags"} =>
          \A n \in DOMAIN input : ~HasLoc(input[n].content)
    /\ op = "extract_pictures_from_doctags" =>
          \A n \in DOMAIN input : ~HasLoc(input[n].caption)

----------------------------------------------------------------------------
(* Properties of process_page, checked under SpecPage. *)

(* A wrapper that holds no located element. *)
ZeroZoneDocument ==
    layout = "wrapped" /\ \A n \in DOMAIN elems : elems[n].shape = "nolocs"

(* The visualization of a page without zones: one raster of the size of    *)
(* the page, the page badge on it and no rectangle.                         *)
BlankVisualization ==
    /\ Len(canvas) = 1
    /\ canvas[1].width = W /\ canvas[1].height = H
    /\ \E n \in DOMAIN canvas[1].marks : canvas[1].marks[n].shape = "badge"
    /\ \A n \in DOMAIN canvas[1].marks : canvas[1].marks[n].shape # "rectangle"

(* C14.  A blank page is not a failure.  A wrapped document with no zone    *)
(* parses to the empty list without error, and process_page then draws a    *)
(* visualization without rectangles and returns True; it does the same,     *)
(* with zero zones, when parse_doctags raises its empty or malformed error. *)
C14_BlankPage ==
    op = "process_page" =>
        /\ ZeroZoneDocument =>
              /\ parse_doctags(doc) = [err |-> "none", zones |-> <<>>]
              /\ input = <<>> /\ zones = <<>>
              /\ BlankVisualization
              /\ ret = "True" /\ err = "none"
        /\ parse_doctags(doc).err \in ValueErrors =>
              /\ zones = <<>>
              /\ BlankVisualization
              /\ ret = "True" /\ err = "none"

(* process_page ran on <doctag><text>Hello</text></doctag>. *)
C14_Witness ==
    /\ op = "process_page"
    /\ ZeroZoneDocument
    /\ Len(elems) = 1
    /\ ret = "True"
    /\ BlankVisualization

(* process_page ran on a file without wrapper and drew the blank page. *)
C14_WitnessRaised ==
    /\ op = "process_page"
    /\ layout = "bare" /\ Len(elems) = 2
    /\ parse_doctags(doc).err = NoDoctagError
    /\ ret = "True"
    /\ BlankVisualization

----------------------------------------------------------------------------
(* Properties of the drawing, checked under SpecRender. *)

(* The marks of the given shape drawn for the n-th zone on raster c. *)
MarksOf(c, sh, n) ==
    { m \in DOMAIN c.marks : c.marks[m].shape = sh /\ c.marks[m].of = n }

InsideImage(bx) ==
    /\ 0 <= bx[1] /\ bx[1] <= bx[3] /\ bx[3] <= W
    /\ 0 <= bx[2] /\ bx[2] <= bx[4] /\ bx[4] <= H

(* C15.  Overlay drawing.  create_visualization draws a rectangle for a     *)
(* zone exactly when the zone's box has x1 < x2 and y1 < y2, whatever the   *)
(* zones before it are, and every rectangle drawn has                       *)
(* 0 <= x1 < x2 <= W and 0 <= y1 < y2 <= H.                                 *)
C15_OverlayDrawing ==
    op = "create_visualization" =>
        \A c \in DOMAIN canvas : \A n \in DOMAIN input :
            LET z == input[n]
                rects == MarksOf(canvas[c], "rectangle", n)
            IN /\ Cardinality(rects) = IF z.x1 < z.x2 /\ z.y1 < z.y2 THEN 1 ELSE 0
               /\ \A m \in rects :
                     LET bx == canvas[c].marks[m].box
                     IN /\ 0 <= bx[1] /\ bx[1] < bx[3] /\ bx[3] <= W
                        /\ 0 <= bx[2] /\ bx[2] < bx[4] /\ bx[4] <= H

(* A degenerate zone followed by a zone that reaches beyond a 500 x 500     *)
(* page: only the second is drawn, clamped to the page.                     *)
C15_Witness ==
    /\ op = "create_visualization"
    /\ W = 500 /\ H = 500
    /\ Len(input) = 2
    /\ input[1].x1 = 10 /\ input[1].x2 = 0
    /\ input[2].x1 = 600 /\ input[2].x2 = 700 /\ input[2].y1 = 490 /\ input[2].y2 = 500
    /\ MarksOf(canvas[1], "rectangle", 1) = {}
    /\ \E m \in MarksOf(canvas[1], "rectangle", 2) :
          canvas[1].marks[m].box = <<499, 490, 500, 500>>

(* C16.  Labels never render outside the image: the background rectangle   *)
(* of every label drawn by create_visualization, and by the legacy          *)
(* create_debug_image, lies within [0, W] x [0, H].                         *)
C16_LabelsInsideImage ==
    op \in {"create_visualization", "legacy.create_debug_image"} =>
        \A c \in DOMAIN canvas : \A m \in DOMAIN canvas[c].marks :
            canvas[c].marks[m].shape = "label" => InsideImage(canvas[c].marks[m].box)

(* C17.  create_visualization leaves the raster it is given and every zone  *)
(* record unchanged, and a second call on the same arguments returns the    *)
(* same drawing.                                                            *)
C17_DrawingIsPure ==
    op = "create_visualization" =>
        /\ image = [width |-> W, height |-> H, marks |-> <<>>]
        /\ heap = input
        /\ zones = [i \in 1..Len(input) |-> i]
        /\ Len(canvas) = 2 => canvas[1] = canvas[2]

(* Two calls on a zone that the drawing clamps to the page. *)
C17_Witness ==
    /\ op = "create_visualization"
    /\ Len(canvas) = 2
    /\ W = 500
    /\ Len(input) = 1
    /\ heap[1].x1 = 600 /\ heap[1].x2 = 700 /\ heap[1].y2 = 500
    /\ \E m \in MarksOf(canvas[2], "rectangle", 1) : canvas[2].marks[m].box[1] = 499

----------------------------------------------------------------------------
(* Properties of the picture extraction, checked under SpecExtract. *)

PictureOf(f) == input[f.name.id]

Expanded(p) ==
    << Max2(0, p.x1 - margin), Max2(0, p.y1 - margin),
       Min2(W, p.x2 + margin), Min2(H, p.y2 + margin) >>

(* C18: whatever the image size and the margin, a picture whose reconciled  *)
(* box has x1 > x2 or y1 > y2 is never cropped: no file returned by         *)
(* extract_and_save_pictures, backend or legacy, comes from such a picture. *)
C18_InvertedNeverCropped ==
    pc = "saved" =>
        \A n \in DOMAIN saved :
            ~(PictureOf(saved[n]).x1 > PictureOf(saved[n]).x2
                \/ PictureOf(saved[n]).y1 > PictureOf(saved[n]).y2)

(* C19: every crop taken by the backend extract_and_save_pictures uses the  *)
(* picture's box expanded by the margin and clamped to the image, that box  *)
(* satisfies 0 <= left < right <= W and 0 <= top < bottom <= H, a picture   *)
(* whose expanded box fails this has no file, and a crop wider than         *)
(* max_width is saved with width max_width and height                       *)
(* floor(cropHeight * max_width / cropWidth), any other at its own size.    *)
C19_CropBox ==
    (pc = "saved" /\ op = "extract_and_save_pictures") =>
        /\ \A n \in DOMAIN saved :
             LET f == saved[n]
                 bx == f.box
                 cw == bx[3] - bx[1]
                 ch == bx[4] - bx[2]
             IN /\ bx = Expanded(PictureOf(f))
                /\ 0 <= bx[1] /\ bx[1] < bx[3] /\ bx[3] <= W
                /\ 0 <= bx[2] /\ bx[2] < bx[4] /\ bx[4] <= H
                /\ IF cw > max_width
                   THEN f.width = max_width /\ f.height = (ch * max_width) \div cw
                   ELSE f.width = cw /\ f.height = ch
        /\ \A i \in DOMAIN input :
             LET bx == Expanded(input[i])
             IN ~(0 <= bx[1] /\ bx[1] < bx[3] /\ 0 <= bx[2] /\ bx[2] < bx[4])
                  => \A n \in DOMAIN saved : saved[n].name.id # i

(* C20: after extract_and_save_pictures and create_html_index, every card   *)
(* of the index shows a picture next to the file cropped from that same     *)
(* picture, and the saved files follow the input order of their pictures.   *)
C20_CropsStayPaired ==
    pc = "indexed" =>
        /\ \A n \in DOMAIN index : index[n].src.id = index[n].alt
        /\ \A m, n \in DOMAIN saved : m < n => saved[m].name.id < saved[n].name.id

----------------------------------------------------------------------------
(* Properties of fix_scaling, checked under SpecFix. *)

(* The number of location markers that end just before position j. *)
LocsBefore(s, j) ==
    LET stops == { i \in 1..(j - 1) : s[i].k # "loc" }
    IN IF stops = {} THEN j - 1 ELSE j - 1 - SetMax(stops)

(* Where LOC_PATTERN matches from left to right without overlap: every      *)
(* fourth marker of a run of markers, while four remain.                    *)
QuadStarts(s) == { j \in DOMAIN s : QuadAt(s, j) /\ LocsBefore(s, j) % 4 = 0 }

(* floor(x * f) for a float f = <<num, den>>. *)
FloorMul(x, f) == (x * f[1]) \div f[2]

(* C21: fix_scaling rewrites each x of every quadruple to                   *)
(* max(0, floor(x * xFactor) + xOffset) and each y to                       *)
(* max(0, floor(y * yFactor) + yOffset), for negative factors too.          *)
C21_ScaleFixArithmetic ==
    pc = "fixed" =>
        \A j \in QuadStarts(doc) :
            /\ fixed[j]     = Loc(Max2(0, FloorMul(doc[j].v, x_factor) + x_offset))
            /\ fixed[j + 1] = Loc(Max2(0, FloorMul(doc[j + 1].v, y_factor) + y_offset))
            /\ fixed[j + 2] = Loc(Max2(0, FloorMul(doc[j + 2].v, x_factor) + x_offset))
            /\ fixed[j + 3] = Loc(Max2(0, FloorMul(doc[j + 3].v, y_factor) + y_offset))

InQuad(s, i) == \E j \in QuadStarts(s) : j <= i /\ i <= j + 3

(* C22: fix_scaling changes only the four numbers of each quadruple: the    *)
(* output has the tokens of the input in the same order, a location marker  *)
(* where the input has a marker of a quadruple and the same token anywhere  *)
(* else, and as many quadruples as the input.                               *)
C22_TextualRewrite ==
    pc = "fixed" =>
        /\ Len(fixed) = Len(doc)
        /\ \A i \in DOMAIN doc :
             IF InQuad(doc, i) THEN fixed[i].k = "loc" /\ fixed[i].v >= 0
             ELSE fixed[i] = doc[i]
        /\ QuadStarts(fixed) = QuadStarts(doc)

C22_Witness ==
    /\ pc = "fixed"
    /\ Len(elems) = 2
    /\ elems[1].shape = "locclose"
    /\ elems[2].content # <<>>
    /\ layout = "padded"
    /\ x_factor = <<-1, 2>>
    /\ x_offset = -20
    /\ fixed # doc
    /\ Cardinality(QuadStarts(doc)) = 2

----------------------------------------------------------------------------
(* Further properties of the reconciliation, checked under SpecReconcile. *)

(* The list the call was given, as a heap and a list of its own. *)
InputList == [i \in 1..Len(input) |-> i]

(* C23: when max x2 > 0 and max y2 > 0, backend auto_adjust_coordinates     *)
(* (calculate_scale_factor) and the legacy auto_adjust_coordinates of the   *)
(* picture extractor both scale by exactly W / max x2 and H / max y2 off    *)
(* the grid (neither the 0.5 and 1.0 bounds nor the factor-of-5 override    *)
(* change the quotient) and both return the same boxes for the list.        *)
C23_HeuristicsAgree ==
    ((Called("utils.auto_adjust_coordinates") \/ Called("legacy.auto_adjust_coordinates"))
      /\ InMaxX > 0 /\ InMaxY > 0) =>
        LET other == IF op = "utils.auto_adjust_coordinates"
                     THEN legacy_auto_adjust_coordinates(input, InputList, W, H)
                     ELSE auto_adjust_coordinates(input, InputList, W, H)
        IN /\ err = "none"
           /\ ~OnGrid => scale = << <<W, InMaxX>>, <<H, InMaxY>> >>
           /\ other.err = "none"
           /\ other.scale = scale
           /\ Len(other.zones) = Len(zones)
           /\ \A i \in DOMAIN zones : other.heap[other.zones[i]] = Out(i)

(* Both axes on the conservative rule: 600 <= 1000 <= 5 * 600 and           *)
(* 800 <= 1000 <= 5 * 800.                                                  *)
C23_Witness ==
    /\ Called("legacy.auto_adjust_coordinates")
    /\ W = 1000 /\ H = 1000
    /\ InMaxX = 600 /\ InMaxY = 800
    /\ scale = << <<1000, 600>>, <<1000, 800>> >>
    /\ \E i \in DOMAIN input : Box(input[i]) = <<100, 100, 600, 800>>
                               /\ Box(Out(i)) = <<166, 125, 1000, 1000>>

(* C24: every zone that backend auto_adjust_coordinates returns for a       *)
(* non-empty list, on the grid branch or the heuristic branch, has          *)
(* 0 <= x2' <= W and 0 <= y2' <= H, and keeps the order of each axis        *)
(* weakly: x1 <= x2 implies x1' <= x2', y1 <= y2 implies y1' <= y2'.        *)
C24_BoxesStayOnPage ==
    Called("utils.auto_adjust_coordinates") =>
        /\ err = "none"
        /\ Len(zones) = Len(input)
        /\ \A i \in DOMAIN input :
              /\ 0 <= Out(i).x2 /\ Out(i).x2 <= W
              /\ 0 <= Out(i).y2 /\ Out(i).y2 <= H
              /\ input[i].x1 <= input[i].x2 => Out(i).x1 <= Out(i).x2
              /\ input[i].y1 <= input[i].y2 => Out(i).y1 <= Out(i).y2

(* The heuristic branch shrinking x (3000 > 1275) and stretching y          *)
(* (800 < 1650), the largest corner landing on the page corner.             *)
C24_Witness ==
    /\ Called("utils.auto_adjust_coordinates")
    /\ ~OnGrid
    /\ W = 1275 /\ H = 1650
    /\ \E i \in DOMAIN input : Box(input[i]) = <<1000, 100, 3000, 800>>
                               /\ Box(Out(i)) = <<425, 206, 1275, 1650>>

----------------------------------------------------------------------------
(* Overlay against extraction, checked under SpecPage. *)

(* What the picture extractor's main makes of the same file on the same     *)
(* page with --adjust: the pictures found and their reconciled records.     *)
ExtractorPictures == extract_pictures_from_doctags(doc).zones

ExtractorReconciled ==
    main_coordinates(ExtractorPictures, [k \in 1..Len(ExtractorPictures) |-> k], TRUE, W, H)

(* C25: with auto-adjust enabled in both, every picture zone gets the same  *)
(* reconciled box from the visualizer's process_page as the picture         *)
(* extractor's main gives the picture with that raw box, for the same file  *)
(* and the same page size.                                                  *)
C25_OverlayMatchesExtraction ==
    (pc = "done" /\ op = "process_page" /\ adjust /\ err = "none") =>
        \A i \in DOMAIN input : \A k \in DOMAIN ExtractorPictures :
            (input[i].type = "picture" /\ Box(input[i]) = Box(ExtractorPictures[k])) =>
                Box(Out(i)) = Box(ExtractorReconciled.heap[ExtractorReconciled.zones[k]])

----------------------------------------------------------------------------
(* A further property of the parser, checked under SpecParse. *)

(* C26: on a well-formed file of non-nested zone elements, backend          *)
(* parse_doctags returns one zone per zone element: as many zones as        *)
(* elements, and each (kind, box) as many times as the file has it, so two  *)
(* elements of one kind with equal (x1, y1) and different (x2, y2) both     *)
(* appear, whether the kind is in the built-in list or not.                 *)
C26_NoZoneLost ==
    (pc # "start" /\ op = "parse_doctags" /\ WellFormedFile) =>
        /\ err = "none"
        /\ Len(input) = Len(elems)
        /\ \A e \in Range(LocatedElements(elems)) :
              Cardinality({ n \in DOMAIN input : KindBox(input[n]) = e })
                = Count(LocatedElements(elems), e)

(* The pages whose visualizer or extractor has read its DocTags. *)
ReadBy(p) == { task[p].viz, task[p].ext } \ { NoFile }

(* C27: in a parallel batch page_N.doctags.txt always holds the analysis of *)
(* page N, and the visualizer and the extractor of page N read the DocTags *)
(* of page N.                                                               *)
C27_NoCrossPageMixup ==
    \A p \in Pages :
        /\ disk.page[p] \in {NoFile, p}
        /\ ReadBy(p) \subseteq {p}

C29_CancelTerminates ==
    (runner = "waiting" /\ state.cancelled)
        ~> (state.completed /\ state.status = "cancelled")

(* C30: the status of a job is monotone: once it is 'completed', by        *)
(* process_document, the force-complete endpoint or the watchdog, no step  *)
(* of the worker thread, the endpoint or the watchdog sets it back to      *)
(* 'running'.                                                              *)
C30_CompletedStaysCompleted ==
    [][jobs.status = "completed" => jobs'.status # "running"]_vars

============================================================================
